---- MODULE Spec2Model ----
(***************************************************************************)
(* Orchestration core of the business-idea validator: the checkpointed    *)
(* workflow graph (src/graph/workflow.py), the phase handlers              *)
(* (src/agents/*.py) and the API operations that drive it                  *)
(* (src/api/routes.py).                                                    *)
(*                                                                         *)
(* One journey (one thread_id) is modelled.  `journey` is the latest       *)
(* checkpoint of the thread: the channel values plus `next`, the node the  *)
(* graph would run next ("END" when the graph has nothing to run).  Every  *)
(* astream call is a run: it loads the latest checkpoint into its own copy *)
(* (`loc`), executes one node per step on that copy and saves the copy as  *)
(* the new latest checkpoint after each node.  Runs of different requests  *)
(* and background tasks interleave between nodes.                          *)
(***************************************************************************)
EXTENDS Integers, Sequences, FiniteSets, TLC

VARIABLES created, journey, runs, last, probe, approved, call

vars == <<created, journey, runs, last, probe, approved, call>>

\* the variables of the workflow engine; `call` is one call of a component
\* looked at on its own (scoring, credibility, research, orchestrator, compiler)
engine == <<created, journey, runs, last, probe, approved>>

(* ------------------------------ bounds --------------------------------- *)
\* number of astream runs (requests or background tasks) in flight at once
MaxRuns == 2
\* cap on the length of user_answers (the code has none)
MaxAnswers == 10
\* the same cap where the interview is not what is looked at
MaxStrayAnswers == 1
\* the assessor's possible scoring outcomes are numbered 0..MaxScore
MaxScore == 1

(* ------------------------- program constants --------------------------- *)
MIN_INTERVIEW_QUESTIONS == 5
MAX_INTERVIEW_QUESTIONS == 10

\* Python's None for the Optional fields of ValidationState
None == -1

END == "END"

ScoreVals == 0..MaxScore

PaidTiers == {"basic", "standard", "premium", "custom"}

\* the tiers the modelled upgrade requests ask for
UpgradeTiers == {"basic", "standard"}

NoReport == [kind |-> "none", score |-> None, breakdown |-> None]

\* no component call is looked at
NoCall == [fn |-> "none"]

(* ----------------------- the persisted journey ------------------------- *)
\* ValidationState: the channels of the graph, and the checkpoint's `next`.
\* questions_asked and user_answers are kept by their lengths (nq, na).
Blank ==
  [ tier |-> "free", interview_phase |-> "asking", nq |-> 0, na |-> 0,
    workflow_phase |-> "interview",
    error |-> FALSE, error_message |-> None, error_node |-> "none",
    search_context |-> None, comprehensive_research |-> None,
    modules |-> None,
    stored_go_no_go_score |-> None, stored_score_breakdown |-> None,
    stored_scoring_research |-> None,
    final_report |-> NoReport, next |-> END ]

\* submit_idea: the initial state handed to astream; the entry point is the
\* interviewer.
InitialState == [Blank EXCEPT !.next = "interviewer"]

\* a slot of `runs` with no astream in flight
Idle == [kind |-> "idle", first |-> FALSE, gate |-> FALSE, loc |-> Blank]

Slots == 1..MaxRuns

FreeSlots == {r \in Slots : runs[r].kind = "idle"}

\* fewer than `limit` runs are in flight
CanSpawn(limit) == Cardinality(Slots \ FreeSlots) < limit

\* the event the last step was: which operation or node, and what it decided
Ev(op, kind, node, outcome) ==
  [ op |-> op, kind |-> kind, node |-> node, outcome |-> outcome,
    slot |-> 0, gate |-> FALSE, edit |-> None,
    had_bundle |-> FALSE, had_modules |-> FALSE, had_comprehensive |-> FALSE,
    pre_score |-> None, pre_breakdown |-> None, pre_report |-> NoReport,
    did_research |-> FALSE, did_scoring |-> FALSE,
    did_modules |-> FALSE, did_comprehensive |-> FALSE ]

(* ------------------------------ routing -------------------------------- *)
route_after_interview(s) ==
  IF s.interview_phase = "complete" THEN "research" ELSE END

\* a routing that sends a custom journey without a valid module to basic_gen
route_by_tier_and_selection(s) ==
  IF s.tier = "free" THEN "free_scan"
  ELSE IF s.tier = "basic" THEN "basic_gen"
  ELSE IF s.tier = "custom" /\ s.custom_modules \cap
            {"mod_bmc", "mod_market", "mod_comp", "mod_finance", "mod_tech",
             "mod_reg", "mod_gtm", "mod_risk", "mod_roadmap", "mod_funding"}
            = {}
  THEN "basic_gen"
  ELSE "parallel_modules"

route_after_research(s) ==
  IF s.tier = "free" THEN "free_scan"
  ELSE IF s.tier = "basic" THEN "basic_gen"
  ELSE "parallel_modules"

\* the graph without the edge from admin_approve to END
SuccessorNoEnd(node, s) ==
  CASE node = "process_answer"   -> "interviewer"
    [] node = "interviewer"      -> route_after_interview(s)
    [] node = "research"         -> route_after_research(s)
    [] node = "free_scan"        -> END
    [] node = "basic_gen"        -> "admin_approve"
    [] node = "parallel_modules" -> "compiler"
    [] node = "compiler"         -> "admin_approve"
    [] node = "admin_approve"    -> "admin_approve"

\* the edges of the graph: the node that follows `node` once it has written s
Successor(node, s) ==
  CASE node = "process_answer"   -> "interviewer"
    [] node = "interviewer"      -> route_after_interview(s)
    [] node = "research"         -> route_after_research(s)
    [] node = "free_scan"        -> END
    [] node = "basic_gen"        -> "admin_approve"
    [] node = "parallel_modules" -> "compiler"
    [] node = "compiler"         -> "admin_approve"
    [] node = "admin_approve"    -> END

\* interrupt_before: a run stops before these nodes unless it resumes there
InterruptBefore == {"admin_approve"}

\* aupdate_state(config, values, as_node): the values are written to the latest
\* checkpoint as if as_node had returned them, and next follows as_node's edges
UpdateState(s, as_node) == [s EXCEPT !.next = Successor(as_node, s)]

\* a run with local state l goes on iff the graph has a node to run and is not
\* interrupted before it (first: the run resumes at l.next)
Continues(l, first) ==
  /\ l.next # END
  /\ (l.next \in InterruptBefore => first)

\* a new run of `kind` that loaded checkpoint s, in the lowest free slot;
\* no run is in flight if the graph has nothing to run
NewSlot == CHOOSE x \in FreeSlots : \A y \in FreeSlots : x <= y

Spawn(kind, gate, s) ==
  IF Continues(s, TRUE)
  THEN [runs EXCEPT ![NewSlot] =
          [kind |-> kind, first |-> TRUE, gate |-> gate, loc |-> s]]
  ELSE runs

(* --------------------------- phase handlers ---------------------------- *)
\* A handler applied to the state l it receives yields a set of possible
\* results, one per outcome of its external calls (assessor, search):
\* ok, the state merged with the returned update, and the event.
Res(ok, val, ev) == [ok |-> ok, val |-> val, ev |-> ev]

\* a non-empty dict or string is truthy; None is not
Truthy(x) == x # None

\* the check written as `if stored_score`: a score of 0.0 counts as absent
ScoreTruthy(x) == x # None /\ x # 0

\* `stored_score is not None`
ScorePresent(x) == x # None

InterviewComplete(l) ==
  [l EXCEPT !.interview_phase = "complete", !.workflow_phase = "free_report"]

\* the assessor call of the interviewer raised: what the handler returns
InterviewOnLlmError(l) ==
  Res(TRUE, InterviewComplete(l), Ev("node", "", "interviewer", "llm_error"))

\* the decision on the assessor's reply: needs_more_info, and next_question
\* as "text" (a question), "missing" (no such key) or "null"
InterviewDecision(l, needs_more_info, next_question) ==
  LET has_next_question == next_question = "text"
      min_questions_met == l.nq >= MIN_INTERVIEW_QUESTIONS
  IN  IF (needs_more_info /\ has_next_question) \/ ~min_questions_met
      THEN IF next_question = "null"
           \* new_question[:50] on None raises TypeError
           THEN Res(FALSE, l, Ev("fail", "", "interviewer", "raised"))
           ELSE Res(TRUE,
                    [l EXCEPT !.interview_phase = "asking", !.nq = @ + 1,
                              !.workflow_phase = "interview"],
                    Ev("node", "", "interviewer", "asked"))
      ELSE Res(TRUE, InterviewComplete(l),
               Ev("node", "", "interviewer",
                  IF needs_more_info THEN "no_question" ELSE "sufficient"))

\* an interviewer that asks the assessor however many questions were asked
interviewer_node_uncapped(l) ==
  {InterviewOnLlmError(l)} \cup
  {InterviewDecision(l, n, q) :
     n \in BOOLEAN, q \in {"text", "missing", "null"}}

interviewer_node(l) ==
  IF MAX_INTERVIEW_QUESTIONS - l.nq <= 0
  THEN {Res(TRUE, InterviewComplete(l), Ev("node", "", "interviewer", "max"))}
  ELSE {InterviewOnLlmError(l)} \cup
       {InterviewDecision(l, n, q) :
          n \in BOOLEAN, q \in {"text", "missing", "null"}}

\* conduct_research: synthesis and quality evaluation; the comprehensive
\* research is gathered for standard, premium and custom only, and may fail
conduct_research(l) ==
  {Res(FALSE, l, Ev("fail", "", "research", "raised"))} \cup
  { Res(TRUE,
        [l EXCEPT !.search_context = 1, !.comprehensive_research = c],
        [Ev("node", "", "research", "done") EXCEPT
            !.did_comprehensive = l.tier \in {"standard", "premium", "custom"}]) :
    c \in IF l.tier \in {"standard", "premium", "custom"} THEN {1, None}
          ELSE {None} }

free_tier_scan(l) ==
  {Res(FALSE, l, Ev("fail", "", "free_scan", "raised"))} \cup
  { Res(TRUE,
        [l EXCEPT !.final_report =
            [kind |-> "free", score |-> None, breakdown |-> None]],
        Ev("node", "", "free_scan", "done")) }

\* the score bundle the handler finds in the state it receives
HasBundle(l) ==
  /\ ScorePresent(l.stored_go_no_go_score)
  /\ Truthy(l.stored_score_breakdown)
  /\ Truthy(l.stored_scoring_research)

\* a score bundle is stored in state l
BundlePersisted(l) ==
  /\ l.stored_go_no_go_score # None
  /\ l.stored_score_breakdown # None
  /\ l.stored_scoring_research # None

\* the result of a paid generation: the report and the bundle it returns
Generated(l, node, kind, score, breakdown, research, did_research, did_scoring) ==
  Res(TRUE,
      [l EXCEPT !.final_report =
                   [kind |-> kind, score |-> score, breakdown |-> breakdown],
                !.stored_go_no_go_score = score,
                !.stored_score_breakdown = breakdown,
                !.stored_scoring_research = research],
      [Ev("node", "", node, "done") EXCEPT
          !.had_bundle = BundlePersisted(l),
          !.pre_score = l.stored_go_no_go_score,
          !.pre_breakdown = l.stored_score_breakdown,
          !.did_research = did_research, !.did_scoring = did_scoring])

basic_tier_gen(l) ==
  LET reuse_research == HasBundle(l)
      reuse_score == ScorePresent(l.stored_go_no_go_score)
                     /\ Truthy(l.stored_score_breakdown)
      research == IF reuse_research THEN l.stored_scoring_research ELSE 1
  IN  {Res(FALSE, l, Ev("fail", "", "basic_gen", "raised"))} \cup
      IF reuse_score
      THEN {Generated(l, "basic_gen", "basic", l.stored_go_no_go_score,
                      l.stored_score_breakdown, research,
                      ~reuse_research, FALSE)}
      ELSE {Generated(l, "basic_gen", "basic", v, v, research,
                      ~reuse_research, TRUE) : v \in ScoreVals}

\* run_modules_parallel: the comprehensive research is gathered only if the
\* state has none; the module tasks are run, each keeping its failure to itself
run_modules_parallel(l) ==
  LET gather == ~Truthy(l.comprehensive_research)
  IN  { Res(TRUE,
            [l EXCEPT !.modules = m,
                      !.comprehensive_research = IF Truthy(c) THEN c ELSE @],
            [Ev("node", "", "parallel_modules", "done") EXCEPT
                !.had_modules = l.modules # None,
                !.had_comprehensive = l.comprehensive_research # None,
                !.did_modules = TRUE, !.did_comprehensive = gather]) :
        m \in {1, l.modules},
        c \in IF gather THEN {1, None} ELSE {None} }

compile_standard_report(l) ==
  LET comprehensive == l.comprehensive_research
  IN  {Res(FALSE, l, Ev("fail", "", "compiler", "raised"))} \cup
      IF HasBundle(l)
      THEN {Generated(l, "compiler", "standard", l.stored_go_no_go_score,
                      l.stored_score_breakdown, l.stored_scoring_research,
                      FALSE, FALSE)}
      ELSE {Generated(l, "compiler", "standard", v, v, 1,
                      ~Truthy(comprehensive), TRUE) : v \in ScoreVals}

admin_approval_node(l) ==
  {Res(TRUE, [l EXCEPT !.workflow_phase = "waiting_for_admin"],
       [Ev("node", "", "admin_approve", "done") EXCEPT
           !.pre_report = l.final_report])}

NodeResults(node, l) ==
  CASE node = "interviewer"      -> interviewer_node(l)
    [] node = "research"         -> conduct_research(l)
    [] node = "free_scan"        -> free_tier_scan(l)
    [] node = "basic_gen"        -> basic_tier_gen(l)
    [] node = "parallel_modules" -> run_modules_parallel(l)
    [] node = "compiler"         -> compile_standard_report(l)
    [] node = "admin_approve"    -> admin_approval_node(l)

(* ------------------------------ status --------------------------------- *)
HasReport(s) == s.final_report # NoReport

\* get_report deciding the free status by the workflow_phase field
StatusOfByPhaseField(s) ==
  IF s.error THEN "failed"
  ELSE IF s.next = END
       THEN IF s.workflow_phase = "free_report" /\ HasReport(s)
            THEN "free_report_complete"
            ELSE IF HasReport(s) THEN "completed"
            ELSE "paused_for_upgrade"
       ELSE IF s.next = "admin_approve" THEN "waiting_for_admin"
       ELSE "processing"

\* get_report: the status reported for the latest checkpoint s
StatusOf(s) ==
  IF s.error THEN "failed"
  ELSE IF s.next = END
       THEN IF s.tier = "free" /\ HasReport(s) THEN "free_report_complete"
            ELSE IF HasReport(s) THEN "completed"
            ELSE "paused_for_upgrade"
       ELSE IF s.next = "admin_approve" THEN "waiting_for_admin"
       ELSE "processing"

\* the journey waits for the answer to the question the interviewer asked
AwaitingAnswer ==
  /\ created /\ ~journey.error
  /\ journey.next = END /\ journey.interview_phase = "asking"
  /\ \A r \in Slots : runs[r].kind = "idle"

\* the journey is suspended before admin_approve
AtApprovalGate ==
  /\ created /\ ~journey.error
  /\ journey.next = "admin_approve"
  /\ \A r \in Slots : runs[r].kind = "idle"

Statuses ==
  {"failed", "free_report_complete", "completed", "paused_for_upgrade",
   "waiting_for_admin", "processing"}

(* ---------------------------- the run steps ---------------------------- *)
\* the except branches of the routes: what a run of `kind` persists when a
\* node raised (submit_idea and admin_approve persist nothing)
OnFailure(kind, s) ==
  CASE kind = "answer" ->
         UpdateState([s EXCEPT !.error = TRUE, !.error_message = 1,
                               !.error_node = "answer_processing",
                               !.workflow_phase = "failed"], "process_answer")
    [] kind = "upgrade" ->
         UpdateState([s EXCEPT !.error = TRUE, !.error_message = 1,
                               !.error_node = "paid_workflow",
                               !.workflow_phase = "failed"], "research")
    [] OTHER -> s

\* history: whether an approval has been processed at the gate since the last
\* paid report was generated, after `node` returned in a run of `kind`
ApprovedAfter(node, kind, gate) ==
  IF node \in {"basic_gen", "compiler"} THEN FALSE
  ELSE IF node = "admin_approve" /\ kind = "approve" /\ gate THEN TRUE
  ELSE approved

\* a node of run r returns: its update is merged into the run's state, which is
\* saved as the latest checkpoint; the run goes on to the next node, or stops
NodeSucceeds(r) ==
  /\ runs[r].kind # "idle"
  /\ \E res \in NodeResults(runs[r].loc.next, runs[r].loc) :
       /\ res.ok
       /\ LET l2 == UpdateState(res.val, runs[r].loc.next)
          IN  /\ journey' = l2
              /\ runs' = [runs EXCEPT ![r] =
                            IF Continues(l2, FALSE)
                            THEN [@ EXCEPT !.loc = l2, !.first = FALSE]
                            ELSE Idle]
       /\ last' = [res.ev EXCEPT !.kind = runs[r].kind, !.slot = r,
                                 !.gate = runs[r].gate]
  /\ approved' = ApprovedAfter(runs[r].loc.next, runs[r].kind, runs[r].gate)
  /\ UNCHANGED <<created, probe, call>>

\* a node of run r raises: the run ends, and the route's except branch runs
NodeFails(r) ==
  /\ runs[r].kind # "idle"
  /\ \E res \in NodeResults(runs[r].loc.next, runs[r].loc) :
       /\ ~res.ok
       /\ last' = [res.ev EXCEPT !.kind = runs[r].kind, !.slot = r,
                                 !.gate = runs[r].gate]
  /\ journey' = OnFailure(runs[r].kind, journey)
  /\ runs' = [runs EXCEPT ![r] = Idle]
  /\ UNCHANGED <<created, probe, approved, call>>

(* --------------------------- the operations ---------------------------- *)
\* POST /submit
Submit ==
  /\ ~created
  /\ created' = TRUE
  /\ journey' = InitialState
  /\ runs' = Spawn("submit", TRUE, InitialState)
  /\ last' = Ev("submit", "submit", "", "accepted")
  /\ UNCHANGED <<probe, approved, call>>

\* POST /answer/{thread_id}; at most `limit` runs in flight, `cap` answers
SubmitAnswer(limit, cap) ==
  /\ created
  /\ CanSpawn(limit)
  /\ journey.na < cap
  /\ LET s1 == UpdateState([journey EXCEPT !.na = @ + 1], "process_answer")
     IN  /\ journey' = s1
         /\ runs' = Spawn("answer", AwaitingAnswer, s1)
  /\ last' = [Ev("answer", "answer", "", "accepted") EXCEPT
                 !.gate = AwaitingAnswer]
  /\ UNCHANGED <<created, probe, approved, call>>

\* POST /upgrade/{thread_id}
Upgrade(limit, tier) ==
  /\ created
  /\ CanSpawn(limit)
  /\ LET s1 == UpdateState([journey EXCEPT !.tier = tier,
                                           !.workflow_phase = "paid_analysis",
                                           !.error = FALSE,
                                           !.error_message = None], "research")
     IN  /\ journey' = s1
         /\ runs' = Spawn("upgrade", TRUE, s1)
  /\ last' = Ev("upgrade", "upgrade", "", "accepted")
  /\ UNCHANGED <<created, probe, approved, call>>

\* the report an admin sends with the approval
Edited(e) == [kind |-> "edited", score |-> None, breakdown |-> e]

\* POST /admin/approve/{thread_id}, with an edited report e or None
Approve(limit, e) ==
  /\ created
  /\ IF journey.next = END
     THEN UNCHANGED <<journey, runs, last, approved>>
     ELSE LET current_node == journey.next
              s1 == IF e # None
                    THEN UpdateState([journey EXCEPT !.final_report = Edited(e)],
                                     current_node)
                    ELSE journey
          IN  /\ CanSpawn(limit)
              /\ journey' = s1
              /\ runs' = Spawn("approve", AtApprovalGate, s1)
              /\ last' = [Ev("approve", "approve", current_node, "accepted")
                             EXCEPT !.edit = e, !.gate = AtApprovalGate,
                                    !.pre_report = journey.final_report]
              /\ approved' = (approved \/ (AtApprovalGate /\ e # None))
  /\ UNCHANGED <<created, probe, call>>

\* GET /report/{thread_id}: a pure read
GetState ==
  /\ created
  /\ StatusOf(journey) \in Statuses
  /\ UNCHANGED vars

\* what one read of a journey that has not failed shows
Observation(s) ==
  [ next |-> s.next, has_report |-> HasReport(s), free |-> s.tier = "free",
    status |-> StatusOf(s) ]

NoProbe ==
  [next |-> "", has_report |-> FALSE, free |-> FALSE, status |-> ""]

\* GET /report/{thread_id}, the answer of one such read being kept
GetStateKept ==
  /\ created
  /\ ~journey.error
  /\ probe' = Observation(journey)
  /\ UNCHANGED <<created, journey, runs, last, approved, call>>

(* --------------------------- specification ----------------------------- *)
Init ==
  /\ created = FALSE
  /\ journey = Blank
  /\ runs = [r \in Slots |-> Idle]
  /\ last = Ev("init", "", "", "")
  /\ probe = NoProbe
  /\ approved = FALSE
  /\ call = NoCall

\* requests served one at a time: a request waits while a run is in flight
Next ==
  \/ Submit
  \/ SubmitAnswer(1, MaxAnswers)
  \/ \E t \in UpgradeTiers : Upgrade(1, t)
  \/ \E e \in {None, 1} : Approve(1, e)
  \/ GetState
  \/ \E r \in Slots : NodeSucceeds(r)
  \/ \E r \in Slots : NodeFails(r)

Spec == Init /\ [][Next]_vars

\* A journey whose interview ended after five questions and whose free report
\* is ready: paused for an upgrade.
PausedAfterFreeReport ==
  [ Blank EXCEPT !.interview_phase = "complete",
                 !.nq = MIN_INTERVIEW_QUESTIONS, !.na = MIN_INTERVIEW_QUESTIONS,
                 !.workflow_phase = "free_report", !.search_context = 1,
                 !.final_report = [kind |-> "free", score |-> None,
                                   breakdown |-> None] ]

InitOverlap ==
  /\ created = TRUE
  /\ journey = PausedAfterFreeReport
  /\ runs = [r \in Slots |-> Idle]
  /\ last = Ev("init", "", "", "")
  /\ probe = NoProbe
  /\ approved = FALSE
  /\ call = NoCall

\* upgrades and approvals arriving while earlier runs are still in flight
NextOverlap ==
  \/ \E t \in UpgradeTiers : Upgrade(MaxRuns, t)
  \/ \E e \in {None, 1} : Approve(MaxRuns, e)
  \/ GetState
  \/ \E r \in Slots : NodeSucceeds(r)
  \/ \E r \in Slots : NodeFails(r)

SpecOverlap == InitOverlap /\ [][NextOverlap]_vars

\* the serial requests, with reads whose answers are compared
NextStatus ==
  \/ Submit
  \/ SubmitAnswer(1, MaxStrayAnswers)
  \/ \E t \in UpgradeTiers : Upgrade(1, t)
  \/ \E e \in {None, 1} : Approve(1, e)
  \/ GetStateKept
  \/ \E r \in Slots : NodeSucceeds(r)
  \/ \E r \in Slots : NodeFails(r)

SpecStatus == Init /\ [][NextStatus]_vars

(* ------------------------------ scoring -------------------------------- *)
\* Scores are kept in tenths: 45 is 4.5.  A dimension the assessor's reply
\* lacks, or whose dict lacks "score", is Missing and counts as 5.0.
Missing == None

\* raw dimension inputs: below the scale, two ties, above the scale, missing
RawScores == {Missing, -200, 45, 55, 130}

\* interview quality of a dimension (0-10 scale, not clamped by the code)
Qualities == {Missing, 0, 10}

\* context_specificity_score values: vague (below 5.0), specific, absent
ContextScores == {Missing, 30, 100}

VIABILITY_WEIGHTS ==
  << [dim |-> "problem_severity", w |-> 30],
     [dim |-> "market_opportunity", w |-> 25],
     [dim |-> "competition_intensity", w |-> 20],
     [dim |-> "execution_complexity", w |-> 15],
     [dim |-> "founder_alignment", w |-> 10] >>

GO_NO_GO_WEIGHTS ==
  << [dim |-> "market_demand", w |-> 25],
     [dim |-> "financial_viability", w |-> 20],
     [dim |-> "competition_analysis", w |-> 15],
     [dim |-> "founder_market_fit", w |-> 10],
     [dim |-> "technical_feasibility", w |-> 10],
     [dim |-> "regulatory_compliance", w |-> 10],
     [dim |-> "timing_assessment", w |-> 5],
     [dim |-> "scalability_potential", w |-> 5] >>

INVERSE_SCORED_METRICS ==
  {"competition_intensity", "execution_complexity", "competition_analysis"}

WeightsOf(fn) ==
  IF fn = "calculate_viability_score" THEN VIABILITY_WEIGHTS
  ELSE GO_NO_GO_WEIGHTS

\* raw_score in tenths
RawScore(raw) == IF raw = Missing THEN 50 ELSE raw

\* int(round(n/d)) without the clamp to the 0-10 scale
DisplayValuesUnclamped(n, d, inexact) ==
  LET lo == n \div d
      rem == n % d
  IN  IF 2 * rem < d THEN {lo}
      ELSE IF 2 * rem > d THEN {lo + 1}
      ELSE IF inexact THEN {lo, lo + 1}
      ELSE IF lo % 2 = 0 THEN {lo} ELSE {lo + 1}

\* int(round(min(max(n/d, 0), 10))) for d > 0: the integers Python's round can
\* return.  round is half-to-even; `inexact` says that n/d stands for a float
\* product, which at a tie may lie a hair to either side of it.
DisplayValues(n, d, inexact) ==
  IF n <= 0 THEN {0}
  ELSE IF n >= 10 * d THEN {10}
  ELSE LET lo == n \div d
           rem == n % d
       IN  IF 2 * rem < d THEN {lo}
           ELSE IF 2 * rem > d THEN {lo + 1}
           ELSE IF inexact THEN {lo, lo + 1}
           ELSE IF lo % 2 = 0 THEN {lo} ELSE {lo + 1}

\* the context penalty from a context score of 5.0 on downwards
QualityMultiplierInclusive(dim, quality, context) ==
  LET quality_factor == IF quality = Missing THEN 5 ELSE quality
      context_score == IF context = Missing THEN 100 ELSE context
      base == 700 + 30 * quality_factor
  IN  IF context_score <= 50 /\ dim \in {"market_opportunity", "problem_severity"}
      THEN [num |-> base * 85, den |-> 100000]
      ELSE [num |-> base, den |-> 1000]

\* quality_multiplier in thousandths: 0.7 + 0.3 * quality_factor / 10, and
\* another 0.85 for a vague context on market_opportunity and problem_severity
QualityMultiplier(dim, quality, context) ==
  LET quality_factor == IF quality = Missing THEN 5 ELSE quality
      context_score == IF context = Missing THEN 100 ELSE context
      base == 700 + 30 * quality_factor
  IN  IF context_score < 50 /\ dim \in {"market_opportunity", "problem_severity"}
      THEN [num |-> base * 85, den |-> 100000]
      ELSE [num |-> base, den |-> 1000]

\* final_display_score of one dimension
DisplayScores(fn, dim, raw, quality, context) ==
  IF fn = "calculate_viability_score"
  THEN LET m == QualityMultiplier(dim, quality, context)
       IN  DisplayValues(RawScore(raw) * m.num, 10 * m.den, TRUE)
  ELSE DisplayValues(RawScore(raw), 10, FALSE)

\* no inversion: the display value enters the sum for every dimension
CalcAsDisplay(dim, display) == display

\* the display value as it enters the weighted sum: calc_scores[dimension]
CalcNormal(dim, display) ==
  IF dim \in INVERSE_SCORED_METRICS THEN 10 - display ELSE display

RECURSIVE WeightedTotal(_, _)
\* sum of calc_scores[dimension] * weight, weights in percent: total * 100,
\* which is the score in tenths
WeightedTotal(weights, entered) ==
  IF weights = <<>> THEN 0
  ELSE Head(entered) * Head(weights).w
       + WeightedTotal(Tail(weights), Tail(entered))

\* final_score in tenths: round(min(max(total * 10, 0), 100), 1) for the
\* viability score, round(min(total * 10, 100), 1) for the Go/No-Go score
FinalScore(fn, entered) ==
  LET t == WeightedTotal(WeightsOf(fn), entered)
      capped == IF t > 1000 THEN 1000 ELSE t
  IN  IF fn = "calculate_viability_score" /\ capped < 0 THEN 0 ELSE capped

\* a call of a scoring function that has looked at no dimension yet
ScoringCall(fn, context) ==
  [fn |-> fn, stage |-> "dims", context |-> context,
   display |-> <<>>, entered |-> <<>>, final |-> None]

\* the loop body for the next dimension, on some raw input and quality
ScoreDimension ==
  /\ call.stage = "dims"
  /\ Len(call.display) < Len(WeightsOf(call.fn))
  /\ LET dim == WeightsOf(call.fn)[Len(call.display) + 1].dim
     IN  \E raw \in RawScores :
         \E quality \in IF call.fn = "calculate_viability_score"
                        THEN Qualities ELSE {Missing} :
         \E d \in DisplayScores(call.fn, dim, raw, quality, call.context) :
           call' = [call EXCEPT !.display = Append(@, d),
                                !.entered = Append(@, CalcNormal(dim, d))]
  /\ UNCHANGED engine

\* the weighted sum and the return of (final_score, display_scores)
FinishScore ==
  /\ call.stage = "dims"
  /\ Len(call.display) = Len(WeightsOf(call.fn))
  /\ call' = [call EXCEPT !.stage = "done",
                          !.final = FinalScore(call.fn, call.entered)]
  /\ UNCHANGED engine

EngineAtRest ==
  /\ created = FALSE
  /\ journey = Blank
  /\ runs = [r \in Slots |-> Idle]
  /\ last = Ev("init", "", "", "")
  /\ probe = NoProbe
  /\ approved = FALSE

InitScoring ==
  /\ EngineAtRest
  /\ \/ \E c \in ContextScores :
          call = ScoringCall("calculate_viability_score", c)
     \/ call = ScoringCall("calculate_go_no_go_score", Missing)

NextScoring ==
  \/ ScoreDimension
  \/ FinishScore

SpecScoring == InitScoring /\ [][NextScoring]_vars

(* ----------------------- scoring: one dimension ------------------------ *)
\* The loop body of a scoring function for one dimension, with its inputs
\* kept: the raw value, the interview quality of the dimension, the context
\* score, the multiplier the raw value is taken by and the display value.
DimensionQualities == {Missing, 0, 3, 5, 10}

\* context_specificity_score in tenths, on both sides of 5.0
DimensionContexts == {Missing, 30, 49, 50, 100}

\* what the raw value of a dimension is multiplied by: quality_multiplier in
\* calculate_viability_score, nothing in calculate_go_no_go_score
Multiplier(fn, dim, quality, context) ==
  IF fn = "calculate_viability_score"
  THEN QualityMultiplier(dim, quality, context)
  ELSE [num |-> 1, den |-> 1]

DimensionCall(fn, dim, raw, quality, context) ==
  [fn |-> "score_dimension", of |-> fn, stage |-> "raw", dim |-> dim,
   raw |-> raw, quality |-> quality, context |-> context,
   multiplier |-> [num |-> 0, den |-> 1], display |-> None]

\* quality_adjusted = raw_score * quality_multiplier
AdjustForQuality ==
  /\ call.fn = "score_dimension" /\ call.stage = "raw"
  /\ call' = [call EXCEPT
       !.stage = "adjusted",
       !.multiplier = Multiplier(call.of, call.dim, call.quality,
                                 call.context)]
  /\ UNCHANGED engine

\* final_display_score
RoundForDisplay ==
  /\ call.fn = "score_dimension" /\ call.stage = "adjusted"
  /\ \E d \in DisplayScores(call.of, call.dim, call.raw, call.quality,
                            call.context) :
       call' = [call EXCEPT !.stage = "displayed", !.display = d]
  /\ UNCHANGED engine

InitDimension ==
  /\ EngineAtRest
  /\ \/ \E i \in 1..Len(VIABILITY_WEIGHTS), raw \in RawScores,
           quality \in DimensionQualities, context \in DimensionContexts :
          call = DimensionCall("calculate_viability_score",
                               VIABILITY_WEIGHTS[i].dim, raw, quality, context)
     \/ \E i \in 1..Len(GO_NO_GO_WEIGHTS), raw \in RawScores :
          call = DimensionCall("calculate_go_no_go_score",
                               GO_NO_GO_WEIGHTS[i].dim, raw, Missing, Missing)

NextDimension ==
  \/ AdjustForQuality
  \/ RoundForDisplay

SpecDimension == InitDimension /\ [][NextDimension]_vars

(* --------------------------- source credibility ------------------------ *)
\* A URL is a sequence of pieces of text, written one after the other with
\* nothing in between ("." and "/" are pieces of their own), so that `in`,
\* Python's substring test, is: the pieces of one occur, in a row, in the other.
Contains(url, part) ==
  \E i \in 0..(Len(url) - Len(part)) :
    \A k \in 1..Len(part) : url[i + k] = part[k]

\* str.lower on a piece
Lower(piece) == IF piece = "GitHub" THEN "github" ELSE piece

url_lower(url) == [i \in 1..Len(url) |-> Lower(url[i])]

\* entries of HIGH_CREDIBILITY_DOMAINS, in the order the dict holds them
HIGH_CREDIBILITY_DOMAINS ==
  << [domain |-> <<"statista", ".", "com">>, score |-> 10],
     [domain |-> <<"pwc", ".", "com">>, score |-> 9],
     [domain |-> <<"ft", ".", "com">>, score |-> 9],
     [domain |-> <<"ycombinator", ".", "com">>, score |-> 9],
     [domain |-> <<"news", ".", "ycombinator", ".", "com">>, score |-> 7],
     [domain |-> <<"github", ".", "com">>, score |-> 8] >>

\* entries of MEDIUM_CREDIBILITY_DOMAINS, in order
MEDIUM_CREDIBILITY_DOMAINS ==
  << [domain |-> <<"forbes", ".", "com">>, score |-> 7],
     [domain |-> <<"medium", ".", "com">>, score |-> 5] >>

\* entries of LOW_CREDIBILITY_PATTERNS
LOW_CREDIBILITY_PATTERNS ==
  { <<"blog", ".">>, <<"reddit", ".", "com">> }

\* the entries of a table whose domain is in the URL
Matching(table, url) ==
  {i \in 1..Len(table) : Contains(url, table[i].domain)}

\* the entry at which `for domain, score in table.items()` returns
FirstMatch(table, url) ==
  CHOOSE i \in Matching(table, url) : \A j \in Matching(table, url) : i <= j

RECURSIVE Count(_, _)
\* url.count(piece)
Count(url, piece) ==
  IF url = <<>> THEN 0
  ELSE (IF Head(url) = piece THEN 1 ELSE 0) + Count(Tail(url), piece)

_score_unknown_domain_heuristics(url) ==
  IF Contains(url, <<".", "gov">>) \/ Contains(url, <<".", "edu">>)
  THEN [score |-> 9, level |-> "high"]
  ELSE IF Contains(url, <<".", "org">>)
  THEN [score |-> 7, level |-> "medium"]
  ELSE IF Contains(url, <<"research">>)
  THEN [score |-> 7, level |-> "medium"]
  ELSE IF Contains(url, <<"review">>)
  THEN [score |-> 2, level |-> "low"]
  ELSE IF Count(url, "-") > 3
  THEN [score |-> 4, level |-> "low"]
  ELSE [score |-> 5, level |-> "unknown"]

score_source_credibility(url) ==
  LET u == url_lower(url)
  IN  IF url = <<>> THEN [score |-> 5, level |-> "unknown"]
      ELSE IF Matching(HIGH_CREDIBILITY_DOMAINS, u) # {}
      THEN [score |-> HIGH_CREDIBILITY_DOMAINS[
                        FirstMatch(HIGH_CREDIBILITY_DOMAINS, u)].score,
            level |-> "high"]
      ELSE IF Matching(MEDIUM_CREDIBILITY_DOMAINS, u) # {}
      THEN [score |-> MEDIUM_CREDIBILITY_DOMAINS[
                        FirstMatch(MEDIUM_CREDIBILITY_DOMAINS, u)].score,
            level |-> "medium"]
      ELSE IF \E pat \in LOW_CREDIBILITY_PATTERNS : Contains(u, pat)
      THEN [score |-> 3, level |-> "low"]
      ELSE _score_unknown_domain_heuristics(u)

\* the URLs looked at: a host, possibly under a subdomain or a longer name,
\* then possibly a path and a query string
HostPrefixes == { <<>>, <<"www", ".">>, <<"news", ".">>, <<"microso">> }

Hosts ==
  {HIGH_CREDIBILITY_DOMAINS[i].domain : i \in 1..Len(HIGH_CREDIBILITY_DOMAINS)}
  \cup {MEDIUM_CREDIBILITY_DOMAINS[i].domain :
          i \in 1..Len(MEDIUM_CREDIBILITY_DOMAINS)}
  \cup { <<"GitHub", ".", "com">>, <<"reddit", ".", "com">>,
         <<"transport", ".", "gov">>, <<"example", ".", "com">> }

Paths ==
  { <<>>, <<"/", "item">>, <<"/", "research">>,
    <<"/", "best", "-", "cheap", "-", "crm", "-", "tools", "-", "list">> }

Queries ==
  { <<>> } \cup { <<"?", "ref", "=">> \o h : h \in Hosts }

Urls ==
  { <<>> } \cup
  { <<"https://">> \o pre \o h \o pa \o q :
      pre \in HostPrefixes, h \in Hosts, pa \in Paths, q \in Queries }

\* one call of the scorer
ScoreSource ==
  /\ call.fn = "score_source_credibility"
  /\ call.stage = "called"
  /\ LET r == score_source_credibility(call.url)
     IN  call' = [call EXCEPT !.stage = "returned",
                              !.score = r.score, !.level = r.level]
  /\ UNCHANGED engine

InitCredibility ==
  /\ EngineAtRest
  /\ \E url \in Urls :
       call = [fn |-> "score_source_credibility", url |-> url,
               stage |-> "called", score |-> None, level |-> ""]

NextCredibility == ScoreSource

SpecCredibility == InitCredibility /\ [][NextCredibility]_vars

(* ------------------------------- research ------------------------------ *)
\* A search result is a dict with a url and a content; content "" is a result
\* without text.  A research text is the sequence of its parts, each a tag and
\* a content, "" being <<>>.  No page quotes the sentinel phrase, and a query
\* brings at most MaxResults results.  Content "b" is a long page, of 2000
\* characters, the others are short ones, of 10; "A" is "a" in capitals.
MaxResults == 2

\* max_length as the callers pass it, and conduct_dynamic_research's default
RESEARCH_CONTENT_LIMIT == 6000

DEFAULT_MAX_LENGTH_PER_OBJECTIVE == 1500

MaxLengths == {DEFAULT_MAX_LENGTH_PER_OBJECTIVE, RESEARCH_CONTENT_LIMIT}

MIN_CREDIBILITY == 4

ResultUrls ==
  { <<"https://", "statista", ".", "com">>,
    <<"https://", "reddit", ".", "com">>,
    <<"https://", "example", ".", "com">> }

Contents == {"", "a", "A", "b"}

\* content[:100].lower(), the key the aggregation deduplicates by
Normalized(content) == IF content = "A" THEN "a" ELSE content

\* len(content)
ContentLen(content) ==
  IF content = "" THEN 0 ELSE IF content = "b" THEN 2000 ELSE 10

\* the length of a part: its tag, and its content cut to 1500 characters by
\* the aggregation and to 1000 by a retry
PartLen(part) ==
  LET n == ContentLen(part.content)
  IN  CASE part.tag = "[HIGH CREDIBILITY SOURCE]" ->
             26 + (IF n > 1500 THEN 1500 ELSE n)
        [] part.tag = "[BROAD RETRY SOURCE]" ->
             21 + (IF n > 1000 THEN 1000 ELSE n)
        [] part.tag = "[CREATIVE RETRY SOURCE]" ->
             24 + (IF n > 1000 THEN 1000 ELSE n)
        [] OTHER -> IF n > 1500 THEN 1500 ELSE n

RECURSIVE TextLen(_)
\* len("\n\n---\n\n".join(parts))
TextLen(text) ==
  IF text = <<>> THEN 0
  ELSE IF Len(text) = 1 THEN PartLen(text[1])
  ELSE PartLen(Head(text)) + 7 + TextLen(Tail(text))

RECURSIVE Cut(_, _)
\* combined[:max_length]: the parts that begin within the first max_length
\* characters, the last of them possibly not whole
Cut(text, max_length) ==
  IF text = <<>> \/ max_length <= 0 THEN <<>>
  ELSE <<Head(text)>>
       \o Cut(Tail(text), max_length - PartLen(Head(text)) - 7)

\* the length of combined[:max_length]
CutLen(text, max_length) ==
  IF Len(Cut(text, max_length)) < Len(text) THEN max_length
  ELSE IF TextLen(text) > max_length THEN max_length ELSE TextLen(text)

Results == [url : ResultUrls, content : Contents]

SearchResults ==
  UNION {[1..n -> Results] : n \in 0..MaxResults}

\* f"No credible research data available for {research_objective}."
Sentinel ==
  << [tag |-> "", content |-> "No credible research data available for"] >>

\* "No credible research data available" in combined
HasSentinelPhrase(text) ==
  \E i \in 1..Len(text) :
    text[i].content = "No credible research data available for"

RECURSIVE SelectSeqBy(_, _)
\* the results at or above a credibility threshold, in order
SelectSeqBy(results, min_credibility) ==
  IF results = <<>> THEN <<>>
  ELSE LET r == Head(results)
           rest == SelectSeqBy(Tail(results), min_credibility)
       IN  IF score_source_credibility(r.url).score >= min_credibility
           THEN <<r>> \o rest ELSE rest

RECURSIVE InsertByScore(_, _)
\* list.sort(key=credibility_score, reverse=True) is stable
InsertByScore(r, sorted) ==
  IF sorted = <<>> THEN <<r>>
  ELSE IF score_source_credibility(Head(sorted).url).score
            >= score_source_credibility(r.url).score
       THEN <<Head(sorted)>> \o InsertByScore(r, Tail(sorted))
       ELSE <<r>> \o sorted

RECURSIVE SortByCredibility(_)
SortByCredibility(results) ==
  IF results = <<>> THEN <<>>
  ELSE InsertByScore(results[Len(results)],
                     SortByCredibility(SubSeq(results, 1, Len(results) - 1)))

RECURSIVE Deduplicated(_, _)
\* the results with content, the first of each content key only
Deduplicated(results, seen_content) ==
  IF results = <<>> THEN <<>>
  ELSE LET r == Head(results)
       IN  IF r.content # "" /\ Normalized(r.content) \notin seen_content
           THEN <<r>> \o Deduplicated(Tail(results),
                           seen_content \cup {Normalized(r.content)})
           ELSE Deduplicated(Tail(results), seen_content)

\* a result as a part of the text, a high source under its tag
Formatted(r) ==
  [tag |-> IF score_source_credibility(r.url).level = "high"
           THEN "[HIGH CREDIBILITY SOURCE]" ELSE "",
   content |-> r.content]

\* aggregated: the parts of the deduplicated results
Aggregate(results, seen_content) ==
  LET kept == Deduplicated(results, seen_content)
  IN  [i \in 1..Len(kept) |-> Formatted(kept[i])]

RECURSIVE Tagged(_, _)
\* the parts a retry makes of its results: every result with content, tagged
Tagged(results, tag) ==
  IF results = <<>> THEN <<>>
  ELSE (IF Head(results).content # ""
        THEN << [tag |-> tag, content |-> Head(results).content] >>
        ELSE <<>>)
       \o Tagged(Tail(results), tag)

\* scored_results without the strict filter: every result is accepted
ScoredResultsAcceptAll(flat_results) == flat_results

\* scored_results: the strict filter, or every result when it leaves none
ScoredResults(flat_results) ==
  LET strict == SelectSeqBy(flat_results, MIN_CREDIBILITY)
  IN  IF strict = <<>> /\ flat_results # <<>> THEN flat_results ELSE strict

\* what a retry's query generation and search can come to
RetryOutcomes ==
  {[kind |-> "raises", results |-> <<>>],
   [kind |-> "no_query", results |-> <<>>]}
  \cup {[kind |-> "searched", results |-> rs] : rs \in SearchResults}

\* a test that takes every text for a null result
AlwaysNull(combined) == TRUE

\* not combined or "No credible research data available" in combined
IsNullResult(combined) == combined = <<>> \/ HasSentinelPhrase(combined)

\* a broad retry whose content never takes the place of combined
BroadRetryIgnored(combined, out) == combined

\* combined after the broad retry: its tagged content, when it found any
BroadRetried(combined, out) ==
  LET retry_content == Tagged(out.results, "[BROAD RETRY SOURCE]")
  IN  IF out.kind = "searched" /\ retry_content # <<>>
      THEN retry_content ELSE combined

\* a creative retry whose content never takes the place of combined
CreativeRetryIgnored(combined, out) == combined

\* combined after the creative retry
CreativeRetried(combined, out) ==
  LET c_content == Tagged(out.results, "[CREATIVE RETRY SOURCE]")
  IN  IF out.kind = "searched" /\ c_content # <<>>
      THEN c_content ELSE combined

Callers == {"conduct_comprehensive_research", "conduct_scoring_research"}

\* the tiers of the journeys whose module phase and compiler do research
PaidResearchTiers == {"standard", "premium", "custom"}

\* the default of tier_query_map.get(tier, 2)
DEFAULT_NUM_QUERIES == 2

\* tier_query_map: the number of queries an objective is researched with
tier_query_map(tier) ==
  IF tier \in {"free", "basic", "standard", "premium", "custom",
               "scoring_baseline"}
  THEN 1 ELSE DEFAULT_NUM_QUERIES

\* the tier a caller hands to conduct_dynamic_research: the journey's, or the
\* internal scoring tier
ResearchTier(caller, tier) ==
  IF caller = "conduct_scoring_research" THEN "scoring_baseline" ELSE tier

\* flat_results: the results of n queries one after the other, MaxResults of
\* them at most in all
FlatResults(n) == IF n = 0 THEN { <<>> } ELSE SearchResults

\* the longest list of queries a reply holds
MaxQueriesReplied == 5

\* the number of queries _fallback_queries returns
FALLBACK_QUERIES == 4

\* what the query generation can come to: a list of queries, a reply that
\* is no list, or an error
QueryReplies ==
  {[kind |-> "list", len |-> k] : k \in 0..MaxQueriesReplied}
  \cup {[kind |-> "non_list", len |-> 0], [kind |-> "raises", len |-> 0]}

\* len(generate_llm_queries(...)): result[:num_queries] of a list, the
\* fallback queries otherwise
generate_llm_queries(reply, num_queries) ==
  IF reply.kind = "list"
  THEN (IF reply.len < num_queries THEN reply.len ELSE num_queries)
  ELSE FALLBACK_QUERIES

\* a call of dynamic_research that has done nothing yet.  Besides combined,
\* it keeps what each level did: strict and scored count the results of the
\* strict filter and of scored_results, lenient says that the fallback took
\* every result, aggregated are the results the text was made of, standard is
\* the text before the retries, broad and creative what the retries came to.
ResearchCall(caller, tier, max_length) ==
  [fn |-> "dynamic_research", caller |-> caller, stage |-> "start",
   tier |-> tier, max_length |-> max_length,
   num_queries |-> tier_query_map(ResearchTier(caller, tier)),
   queries_run |-> 0,
   strict |-> None, scored |-> None, lenient |-> FALSE,
   aggregated |-> <<>>, standard |-> <<>>, combined |-> <<>>,
   broad |-> [kind |-> "none", results |-> <<>>],
   creative |-> [kind |-> "none", found |-> FALSE],
   output |-> <<>>, output_len |-> 0, results |-> <<>>, kept |-> <<>>]

\* queries, searches, scoring, filtering, sorting and aggregation
StandardSearch ==
  /\ call.fn = "dynamic_research" /\ call.stage = "start"
  /\ \E reply \in QueryReplies :
     \E flat_results \in
          FlatResults(generate_llm_queries(reply, call.num_queries)) :
       LET scored_results == ScoredResults(flat_results)
           strict == SelectSeqBy(flat_results, MIN_CREDIBILITY)
           sorted == SortByCredibility(scored_results)
       IN  call' = [call EXCEPT
             !.stage = "searched",
             !.queries_run = generate_llm_queries(reply, call.num_queries),
             !.strict = Len(strict),
             !.scored = Len(scored_results),
             !.lenient = strict = <<>> /\ scored_results # <<>>,
             !.aggregated = Deduplicated(sorted, {}),
             !.standard = Aggregate(sorted, {}),
             !.combined = Aggregate(sorted, {})]
  /\ UNCHANGED engine

\* the null result verification: one broad query when combined is null
BroadRetry ==
  /\ call.fn = "dynamic_research" /\ call.stage = "searched"
  /\ \/ /\ IsNullResult(call.combined)
        /\ \E out \in RetryOutcomes :
             call' = [call EXCEPT
                        !.stage = "broad_done",
                        !.broad = out,
                        !.combined = BroadRetried(call.combined, out)]
     \/ /\ ~IsNullResult(call.combined)
        /\ call' = [call EXCEPT !.stage = "broad_done"]
  /\ UNCHANGED engine

\* one creative query when combined is still null
CreativeRetry ==
  /\ call.fn = "dynamic_research" /\ call.stage = "broad_done"
  /\ \/ /\ IsNullResult(call.combined)
        /\ \E out \in RetryOutcomes :
             call' = [call EXCEPT
                        !.stage = "creative_done",
                        !.creative =
                           [kind |-> out.kind,
                            found |-> Tagged(out.results,
                                             "[CREATIVE RETRY SOURCE]") # <<>>],
                        !.combined = CreativeRetried(call.combined, out)]
     \/ /\ ~IsNullResult(call.combined)
        /\ call' = [call EXCEPT !.stage = "creative_done"]
  /\ UNCHANGED engine

\* the final check and the return
ReturnResearch ==
  /\ call.fn = "dynamic_research" /\ call.stage = "creative_done"
  /\ call' = [call EXCEPT
                !.stage = "returned",
                !.output = IF call.combined = <<>> THEN Sentinel
                           ELSE Cut(call.combined, call.max_length),
                !.output_len =
                   IF call.combined = <<>> THEN TextLen(Sentinel)
                   ELSE CutLen(call.combined, call.max_length)]
  /\ UNCHANGED engine

\* conduct_dynamic_research: results[key] = content
StoreObjective ==
  /\ call.fn = "dynamic_research" /\ call.stage = "returned"
  /\ call' = [call EXCEPT !.stage = "stored", !.results = call.output]
  /\ UNCHANGED engine

\* the caller's use of results: conduct_comprehensive_research keeps a topic
\* whose text is truthy, conduct_scoring_research hands all of it to scoring
UseResearch ==
  /\ call.fn = "dynamic_research" /\ call.stage = "stored"
  /\ call' = [call EXCEPT
                !.stage = "used",
                !.kept = IF call.caller = "conduct_comprehensive_research"
                         THEN (IF call.results # <<>> THEN call.results
                               ELSE <<>>)
                         ELSE call.results]
  /\ UNCHANGED engine

InitResearch ==
  /\ EngineAtRest
  /\ \E caller \in Callers, tier \in PaidResearchTiers,
        max_length \in MaxLengths :
       call = ResearchCall(caller, tier, max_length)

NextResearch ==
  \/ StandardSearch
  \/ BroadRetry
  \/ CreativeRetry
  \/ ReturnResearch
  \/ StoreObjective
  \/ UseResearch

SpecResearch == InitResearch /\ [][NextResearch]_vars

(* -------------------------- module orchestrator ------------------------ *)
\* run_modules_parallel step by step.  `view` is the state dict as the engine
\* handed it over, `state` the same dict object as the call goes on, `update`
\* the dict the call returns.  A text or a payload is 1, an absent one None.
MODULE_MAP ==
  << [name |-> "mod_bmc", key |-> "bmc_data"],
     [name |-> "mod_market", key |-> "market_data"],
     [name |-> "mod_comp", key |-> "competitor_data"],
     [name |-> "mod_finance", key |-> "financial_data"],
     [name |-> "mod_tech", key |-> "tech_data"],
     [name |-> "mod_reg", key |-> "reg_data"],
     [name |-> "mod_gtm", key |-> "gtm_data"],
     [name |-> "mod_risk", key |-> "risk_data"],
     [name |-> "mod_roadmap", key |-> "roadmap_data"],
     [name |-> "mod_funding", key |-> "funding_data"] >>

ModuleNames == {MODULE_MAP[i].name : i \in 1..Len(MODULE_MAP)}

DataKey(name) ==
  MODULE_MAP[CHOOSE i \in 1..Len(MODULE_MAP) : MODULE_MAP[i].name = name].key

\* custom_modules of the journeys looked at; {} is None (standard, premium)
CustomSelections == { {}, {"mod_bmc", "mod_market"}, {"mod_risk"} }

\* the state a handler is called with: the keys the orchestrator reads
OrchestratorViews ==
  [comprehensive_research : {None, 1},
   strategic_directive : {None},
   custom_modules : CustomSelections]

\* modules_to_run
ModulesToRun(custom_modules) ==
  IF custom_modules # {} THEN ModuleNames \cap custom_modules
  ELSE ModuleNames

\* one task: the module's dict, or {} when the module raised
run_module_safe(name, outcome) ==
  IF outcome = "ok" THEN {DataKey(name)} ELSE {}

\* asyncio.gather over the bare module functions: the first error is raised
\* out of the batch and nothing is merged
GatheredUnsafe(outcomes) ==
  IF \E m \in DOMAIN outcomes : outcomes[m] = "raises"
  THEN [raised |-> TRUE, merged |-> {}]
  ELSE [raised |-> FALSE, merged |-> {DataKey(m) : m \in DOMAIN outcomes}]

\* asyncio.gather over the run_module_safe tasks, and the merge of the
\* non-empty results
Gathered(outcomes) ==
  [raised |-> FALSE,
   merged |-> UNION {run_module_safe(m, outcomes[m]) : m \in DOMAIN outcomes}]

\* a generator that never takes the shared research
SearchContextAlwaysOwn(comprehensive_research) == "dynamic_research"

\* generate_structured_module: where a generator's search_context comes from
SearchContextSource(comprehensive_research) ==
  IF comprehensive_research # None THEN "comprehensive_research"
  ELSE "dynamic_research"

\* the modules of a batch that returned a payload built on a search of
\* their own
ResearchedAlone(outcomes, comprehensive_research) ==
  {m \in DOMAIN outcomes :
     /\ outcomes[m] = "ok"
     /\ SearchContextSource(comprehensive_research) = "dynamic_research"}

\* research_runs and directive_runs count the calls of
\* conduct_comprehensive_research and of generate_strategic_directive
OrchestratorCall(view) ==
  [fn |-> "run_modules_parallel", stage |-> "start",
   view |-> view, state |-> view,
   comprehensive_research |-> None, directive |-> None,
   research_runs |-> 0, directive_runs |-> 0, researched_alone |-> {},
   outcomes |-> [m \in {} |-> ""], raised |-> FALSE, update |-> {}]

\* the comprehensive research, gathered when the state has none
GatherResearch ==
  /\ call.fn = "run_modules_parallel" /\ call.stage = "start"
  /\ \/ /\ call.state.comprehensive_research = None
        /\ \E found \in {None, 1} :
             call' = [call EXCEPT
               !.stage = "researched",
               !.research_runs = @ + 1,
               !.comprehensive_research = found,
               !.state.comprehensive_research =
                  IF found # None THEN found ELSE @]
     \/ /\ call.state.comprehensive_research # None
        /\ call' = [call EXCEPT !.stage = "researched"]
  /\ UNCHANGED engine

\* the strategic directive, generated when the state has none
GenerateDirective ==
  /\ call.fn = "run_modules_parallel" /\ call.stage = "researched"
  /\ \/ /\ call.state.strategic_directive = None
        /\ \E ok \in BOOLEAN :
             call' = [call EXCEPT
               !.stage = "directed",
               !.directive_runs = @ + 1,
               !.directive = IF ok THEN 1 ELSE None,
               !.state.strategic_directive = IF ok THEN 1 ELSE @]
     \/ /\ call.state.strategic_directive # None
        /\ call' = [call EXCEPT !.stage = "directed"]
  /\ UNCHANGED engine

\* the batch: every module to run either returns its payload or raises
RunModules ==
  /\ call.fn = "run_modules_parallel" /\ call.stage = "directed"
  /\ \E outcomes \in [ModulesToRun(call.state.custom_modules)
                        -> {"ok", "raises"}] :
       LET g == Gathered(outcomes)
       IN  call' = [call EXCEPT
             !.stage = IF g.raised THEN "raised" ELSE "ran",
             !.outcomes = outcomes,
             !.researched_alone =
                ResearchedAlone(outcomes, call.state.comprehensive_research),
             !.raised = g.raised,
             !.update = g.merged]
  /\ UNCHANGED engine

\* the research is added to the merged dict when this call gathered it
ReturnMerged ==
  /\ call.fn = "run_modules_parallel" /\ call.stage = "ran"
  /\ call' = [call EXCEPT
       !.stage = "returned",
       !.update = IF call.comprehensive_research # None
                  THEN @ \cup {"comprehensive_research"} ELSE @]
  /\ UNCHANGED engine

InitModules ==
  /\ EngineAtRest
  /\ \E view \in OrchestratorViews : call = OrchestratorCall(view)

NextModules ==
  \/ GatherResearch
  \/ GenerateDirective
  \/ RunModules
  \/ ReturnMerged

SpecModules == InitModules /\ [][NextModules]_vars

(* ------------------- module orchestrator: the batch -------------------- *)
\* The tasks of one batch, each finishing at a time of its own, and the merge
\* of what asyncio.gather hands back.  A dict is a function from its keys; a
\* payload is written as the name of the module that generated it.
EmptyDict == [k \in {} |-> ""]

\* should_run_module: without a selection every module runs
should_run_module(custom_modules, name) ==
  custom_modules = {} \/ name \in custom_modules

\* a module that writes its payload to the first module's key
std_module_one_key(custom_modules, name) ==
  IF ~should_run_module(custom_modules, name) THEN EmptyDict
  ELSE [k \in {MODULE_MAP[1].key} |-> name]

\* std_bmc .. std_funding: {} for a module not selected, else the payload
\* under the module's data key
std_module(custom_modules, name) ==
  IF ~should_run_module(custom_modules, name) THEN EmptyDict
  ELSE [k \in {DataKey(name)} |-> name]

\* run_module_safe around a module function
TaskResult(custom_modules, name, outcome) ==
  IF outcome = "raises" THEN EmptyDict
  ELSE std_module(custom_modules, name)

\* merged.update(result)
DictUpdate(merged, result) ==
  [k \in DOMAIN merged \cup DOMAIN result |->
     IF k \in DOMAIN result THEN result[k] ELSE merged[k]]

\* the position of a task in the list handed to asyncio.gather
TaskPosition(name) ==
  CHOOSE i \in 1..Len(MODULE_MAP) : MODULE_MAP[i].name = name

\* the merge loop over the first i results, which asyncio.gather returns in
\* the order of the tasks; an empty result is skipped
RECURSIVE MergedUpTo(_, _)
MergedUpTo(results, i) ==
  IF i = 0 THEN EmptyDict
  ELSE LET merged == MergedUpTo(results, i - 1)
           name == MODULE_MAP[i].name
       IN  IF name \in DOMAIN results /\ DOMAIN results[name] # {}
           THEN DictUpdate(merged, results[name])
           ELSE merged

BatchCall(custom_modules) ==
  [fn |-> "gather_modules", stage |-> "running",
   custom_modules |-> custom_modules,
   pending |-> ModulesToRun(custom_modules),
   results |-> [m \in {} |-> EmptyDict],
   overtaken |-> FALSE, merged |-> EmptyDict]

\* one task of the batch finishes, whichever; overtaken records that a task
\* finished while one before it in the list was still running
TaskCompletes ==
  /\ call.fn = "gather_modules" /\ call.stage = "running"
  /\ \E name \in call.pending, outcome \in {"ok", "raises"} :
       call' = [call EXCEPT
         !.pending = @ \ {name},
         !.results = [m \in DOMAIN @ \cup {name} |->
                        IF m = name
                        THEN TaskResult(call.custom_modules, name, outcome)
                        ELSE @[m]],
         !.overtaken = @ \/ \E m \in call.pending :
                               TaskPosition(m) < TaskPosition(name)]
  /\ UNCHANGED engine

\* asyncio.gather returns once every task has finished; the results are merged
MergeResults ==
  /\ call.fn = "gather_modules" /\ call.stage = "running"
  /\ call.pending = {}
  /\ call' = [call EXCEPT
       !.stage = "merged",
       !.merged = MergedUpTo(call.results, Len(MODULE_MAP))]
  /\ UNCHANGED engine

InitBatch ==
  /\ EngineAtRest
  /\ \E custom_modules \in CustomSelections : call = BatchCall(custom_modules)

NextBatch ==
  \/ TaskCompletes
  \/ MergeResults

SpecBatch == InitBatch /\ [][NextBatch]_vars

(* ---------------------- compiler: consistency check -------------------- *)
\* compile_standard_report's verification and auto-fix pass, then the rest of
\* the compilation.  A module payload of the state is None when absent, 1 as
\* the module wrote it, one more for every repair that has rewritten it.
MODULE_DATA_KEYS == {MODULE_MAP[i].key : i \in 1..Len(MODULE_MAP)}

\* report_key_map: the node name of a data key
NodeOfKey(key) ==
  MODULE_MAP[CHOOSE i \in 1..Len(MODULE_MAP) : MODULE_MAP[i].key = key].name

\* the payload sets of the journeys looked at
PresentSets ==
  SUBSET {"bmc_data", "market_data", "competitor_data", "financial_data"}

CompileTiers == {"standard", "premium", "custom"}

\* modules_for_check: the modules with a payload, those of custom_modules
\* only when there is such a list
ModulesForCheck(payloads, custom_modules) ==
  {k \in MODULE_DATA_KEYS :
     /\ payloads[k] # None
     /\ custom_modules # {} => NodeOfKey(k) \in custom_modules}

\* only the custom tier is left out of verification
SkipsVerificationCustomOnly(tier, modules_for_check) == tier = "custom"

\* no verification for the custom tier, none with fewer than two modules
SkipsVerification(tier, modules_for_check) ==
  tier = "custom" \/ Cardinality(modules_for_check) < 2

\* what verify_cross_module_consistency can come to: a passing or a failing
\* score with some inconsistencies listed, an error inside it, which it turns
\* into a pass, or an error that reaches the compiler
VerifyOutcomes ==
  [kind : {"pass", "fail"}, inconsistencies : 0..3]
  \cup {[kind |-> "error", inconsistencies |-> 0],
        [kind |-> "raises", inconsistencies |-> 0]}

\* an error of the check ends the compilation
AfterVerifyFailClosed(out) ==
  IF out.kind \in {"error", "raises"} THEN [stage |-> "raised", todo |-> 0]
  ELSE IF out.kind = "pass" \/ out.inconsistencies = 0
  THEN [stage |-> "compiling", todo |-> 0]
  ELSE [stage |-> "fixing",
        todo |-> IF out.inconsistencies > 2 THEN 2 ELSE out.inconsistencies]

\* where the compilation goes after the check, and how many of the
\* inconsistencies (inconsistencies[:2]) it will try to repair
AfterVerify(out) ==
  IF out.kind \in {"pass", "error", "raises"} \/ out.inconsistencies = 0
  THEN [stage |-> "compiling", todo |-> 0]
  ELSE [stage |-> "fixing",
        todo |-> IF out.inconsistencies > 2 THEN 2 ELSE out.inconsistencies]

\* target_module names a repair can come back with: a module, the derived
\* Customer module, or a name the compiler does not know
FixTargets == MODULE_DATA_KEYS \cup {"Customer", "unknown"}

\* what attempt_fix_for_inconsistency can come to: a fix, no fix, or an error
\* inside it, which it turns into no fix
FixOutcomes ==
  {[kind |-> "fixed", target |-> t] : t \in FixTargets}
  \cup {[kind |-> "none", target |-> "unknown"],
        [kind |-> "error", target |-> "unknown"]}

\* the names of the two modules an inconsistency lists
IssueNames ==
  {"bmc_data", "market_data", "competitor_data", "financial_data",
   "Customer", "unknown"}

Issues == {issue \in SUBSET IssueNames : Cardinality(issue) = 2}

\* module_lookup.get(name): the content of a module of the check, the
\* customer segments of the canvas under the name Customer
Found(name, modules_for_check) ==
  \/ name \in modules_for_check
  \/ name = "Customer" /\ "bmc_data" \in modules_for_check

\* simple_to_key.get(name): the state key behind a module name
StateKey(name) == IF name = "Customer" THEN "bmc_data" ELSE name

\* attempt_fix_for_inconsistency: no fix unless both modules of the issue
\* are found; then whatever the reply names as target_module
FixResult(issue, modules_for_check, reply) ==
  IF \A name \in issue : Found(name, modules_for_check) THEN reply
  ELSE [kind |-> "none", target |-> "unknown"]

\* the state dict after the compiler has applied a repair to it
ApplyFix(payloads, out) ==
  IF out.kind # "fixed" \/ out.target = "unknown" THEN payloads
  ELSE IF payloads[StateKey(out.target)] # None
  THEN [payloads EXCEPT ![StateKey(out.target)] = @ + 1]
  ELSE payloads

\* range(n)
Range(n) == 0..(n - 1)

\* a verification loop of two passes
VerifyAttemptsTwice == Range(2)

\* for attempt in range(1)
VerifyAttempts == Range(1)

\* after the last repair of a pass: the loop ends when nothing was applied
\* or when range() is used up, and verifies again otherwise
AfterFixes(attempt, fixes_applied) ==
  IF fixes_applied # 0 /\ (attempt + 1) \in VerifyAttempts THEN "start"
  ELSE "compiling"

\* _filter_modules_for_tier over the payloads _build_final_report reads from
\* the state: with a selection, the modules outside it are left out
filter_modules_for_tier(custom_modules, payloads) ==
  IF custom_modules = {} THEN payloads
  ELSE [k \in MODULE_DATA_KEYS |->
          IF NodeOfKey(k) \in custom_modules THEN payloads[k] ELSE None]

CompileCall(tier, custom_modules, present) ==
  [fn |-> "compile_standard_report", stage |-> "start",
   tier |-> tier, custom_modules |-> custom_modules,
   view |-> [k \in MODULE_DATA_KEYS |-> IF k \in present THEN 1 ELSE None],
   state |-> [k \in MODULE_DATA_KEYS |-> IF k \in present THEN 1 ELSE None],
   step |-> "", verified |-> None, todo |-> 0, fixes_applied |-> 0,
   attempt |-> 0, verifier_calls |-> 0, inconsistencies |-> 0,
   fix_calls |-> 0, issue |-> {}, written |-> {},
   errors |-> 0, update |-> {}, final_report |-> None,
   modules |-> [k \in MODULE_DATA_KEYS |-> None]]

\* the verification pass up to the verifier's answer
VerifyConsistency ==
  /\ call.fn = "compile_standard_report" /\ call.stage = "start"
  /\ LET modules_for_check ==
           ModulesForCheck(call.state, call.custom_modules)
     IN  \/ /\ SkipsVerification(call.tier, modules_for_check)
            /\ call' = [call EXCEPT !.stage = "compiling",
                                    !.step = "skipped"]
         \/ /\ ~SkipsVerification(call.tier, modules_for_check)
            /\ \E out \in VerifyOutcomes :
                 LET a == AfterVerify(out)
                 IN  call' = [call EXCEPT
                       !.stage = a.stage,
                       !.todo = a.todo,
                       !.step = "verify_" \o out.kind,
                       !.verifier_calls = @ + 1,
                       !.inconsistencies = out.inconsistencies,
                       !.fixes_applied = 0,
                       !.verified = Cardinality(modules_for_check),
                       !.errors = IF out.kind \in {"error", "raises"}
                                  THEN @ + 1 ELSE @]
  /\ UNCHANGED engine

\* one repair of the auto-fix loop; the loop ends after the last one, and the
\* pass ends there
AttemptFix ==
  /\ call.fn = "compile_standard_report" /\ call.stage = "fixing"
  /\ \E issue \in Issues, reply \in FixOutcomes :
       LET modules_for_check ==
             ModulesForCheck(call.state, call.custom_modules)
           out == FixResult(issue, modules_for_check, reply)
           fixed == ApplyFix(call.state, out)
           applied == IF fixed # call.state THEN call.fixes_applied + 1
                      ELSE call.fixes_applied
           done == call.todo = 1
       IN  call' = [call EXCEPT
             !.state = fixed,
             !.fixes_applied = applied,
             !.fix_calls = @ + 1,
             !.issue = issue,
             !.written = {k \in MODULE_DATA_KEYS : fixed[k] # call.state[k]},
             !.todo = @ - 1,
             !.stage = IF done THEN AfterFixes(call.attempt, applied)
                       ELSE "fixing",
             !.attempt = IF done /\ AfterFixes(call.attempt, applied) = "start"
                         THEN @ + 1 ELSE @,
             !.step = "fix_" \o out.kind,
             !.errors = IF out.kind = "error" THEN @ + 1 ELSE @]
  /\ UNCHANGED engine

\* summaries, scoring, synthesis and the return of the update; an error here
\* is the node's failure
CompileReport ==
  /\ call.fn = "compile_standard_report" /\ call.stage = "compiling"
  /\ \E ok \in BOOLEAN :
       call' = [call EXCEPT
         !.stage = IF ok THEN "returned" ELSE "raised",
         !.step = IF ok THEN "report" ELSE "report_raises",
         !.final_report = IF ok THEN 1 ELSE None,
         !.modules = IF ok
                     THEN filter_modules_for_tier(call.custom_modules,
                                                  call.state)
                     ELSE @,
         !.update = IF ok
                    THEN {"final_report", "stored_go_no_go_score",
                          "stored_score_breakdown", "stored_scoring_research"}
                    ELSE {}]
  /\ UNCHANGED engine

InitCompile ==
  /\ EngineAtRest
  /\ \E tier \in CompileTiers, custom_modules \in CustomSelections,
        present \in PresentSets :
       call = CompileCall(tier, custom_modules, present)

NextCompile ==
  \/ VerifyConsistency
  \/ AttemptFix
  \/ CompileReport

SpecCompile == InitCompile /\ [][NextCompile]_vars

(* -------------------- compiler: names of a repair ---------------------- *)
\* One issue of the auto-fix loop with the module names as they are spelt:
\* attempt_fix_for_inconsistency looks the two names of the issue up, the
\* reply names a target, the compiler finds the state key of the target.
SpeltNames ==
  {"bmc", "BMC", "market", "Market", "MARKET", "gtm", "GTM",
   "financial", "Financials", "tech", "Tech",
   "Customer", "customer", "customer segments", "unknown"}

\* str.lower()
LowerName(name) ==
  CASE name = "BMC" -> "bmc"
    [] name \in {"Market", "MARKET"} -> "market"
    [] name = "GTM" -> "gtm"
    [] name = "Financials" -> "financials"
    [] name = "Tech" -> "tech"
    [] name = "Customer" -> "customer"
    [] OTHER -> name

\* key.replace("_data", "")
SimpleName(key) ==
  CASE key = "bmc_data" -> "bmc"
    [] key = "market_data" -> "market"
    [] key = "competitor_data" -> "competitor"
    [] key = "financial_data" -> "financial"
    [] key = "tech_data" -> "tech"
    [] key = "reg_data" -> "reg"
    [] key = "gtm_data" -> "gtm"
    [] key = "risk_data" -> "risk"
    [] key = "roadmap_data" -> "roadmap"
    [] key = "funding_data" -> "funding"

\* simple_to_key.get(target_mod): the simple names of the data keys, and the
\* spellings added for the replies
simple_to_key(name) ==
  CASE name \in {SimpleName(k) : k \in MODULE_DATA_KEYS} ->
         CHOOSE k \in MODULE_DATA_KEYS : SimpleName(k) = name
    [] name = "Customer" -> "bmc_data"
    [] name = "Financials" -> "financial_data"
    [] name \in {"Competition", "Competitors"} -> "competitor_data"
    [] name = "Market" -> "market_data"
    [] name = "Tech" -> "tech_data"
    [] name = "Risks" -> "risk_data"
    [] OTHER -> ""

\* modules_for_check of a standard or premium compilation: the payloads
\* present under their simple names, and Customer with the canvas
AllModules(present) ==
  {SimpleName(k) : k \in present}
  \cup (IF "bmc_data" \in present THEN {"Customer"} ELSE {})

\* module_lookup.get(name.lower()): the data key whose content is fetched
\* for a name of the issue, "" when nothing is found
module_lookup(name, present) ==
  LET lowered == LowerName(name)
      keys == {LowerName(n) : n \in AllModules(present)}
  IN  IF "bmc" \in keys /\ lowered \in {"customer", "customer segments"}
      THEN "bmc_data"
      ELSE IF lowered \in keys /\ lowered # "customer"
      THEN CHOOSE k \in present : SimpleName(k) = lowered
      ELSE ""

NamedPresentSets ==
  {{"bmc_data", "market_data", "gtm_data", "financial_data", "tech_data"},
   {"market_data", "gtm_data", "financial_data", "tech_data"},
   {"bmc_data", "market_data"}}

RepairCall(present, name1, name2) ==
  [fn |-> "attempt_fix_for_inconsistency", stage |-> "start",
   present |-> present, name1 |-> name1, name2 |-> name2,
   content1 |-> "", content2 |-> "", target |-> "", state_key |-> "",
   written |-> ""]

\* the two contents of the issue; without both there is no repair
FetchContents ==
  /\ call.fn = "attempt_fix_for_inconsistency" /\ call.stage = "start"
  /\ LET content1 == module_lookup(call.name1, call.present)
         content2 == module_lookup(call.name2, call.present)
     IN  call' = [call EXCEPT
           !.content1 = content1,
           !.content2 = content2,
           !.stage = IF content1 = "" \/ content2 = "" THEN "no_fix"
                     ELSE "fetched"]
  /\ UNCHANGED engine

\* the reply to the repair prompt: a target_module, or nothing usable
ReplyToRepair ==
  /\ call.fn = "attempt_fix_for_inconsistency" /\ call.stage = "fetched"
  /\ \/ \E target \in SpeltNames :
          call' = [call EXCEPT !.stage = "replied", !.target = target]
     \/ call' = [call EXCEPT !.stage = "no_fix"]
  /\ UNCHANGED engine

\* the compiler writes the repaired content under the state key of the target
WriteBack ==
  /\ call.fn = "attempt_fix_for_inconsistency" /\ call.stage = "replied"
  /\ LET state_key == simple_to_key(call.target)
     IN  call' = [call EXCEPT
           !.stage = "applied",
           !.state_key = state_key,
           !.written = IF state_key # "" /\ state_key \in call.present
                       THEN state_key ELSE ""]
  /\ UNCHANGED engine

InitNames ==
  /\ EngineAtRest
  /\ \E present \in NamedPresentSets, name1, name2 \in SpeltNames :
       call = RepairCall(present, name1, name2)

NextNames ==
  \/ FetchContents
  \/ ReplyToRepair
  \/ WriteBack

SpecNames == InitNames /\ [][NextNames]_vars

(* ------------------------ routing after research ----------------------- *)
\* route_after_research on a state, and the modules the orchestrator then
\* launches.  custom_modules is what POST /upgrade lets through: names of
\* STANDARD_MODULE_NAMES and "investor_pitch_deck"; {} is no list.
Tiers == {"free", "basic", "standard", "premium", "custom"}

RoutedSelections ==
  { {}, {"mod_bmc", "mod_market"}, {"mod_risk"}, {"investor_pitch_deck"},
    {"mod_market", "investor_pitch_deck"} }

RoutedStates ==
  [tier : Tiers, custom_modules : RoutedSelections,
   error : BOOLEAN, comprehensive_research : {None, 1}]

\* the research node has returned and the graph picks the next node
RouteAfterResearch ==
  /\ call.fn = "route_after_research" /\ call.stage = "called"
  /\ call' = [call EXCEPT !.stage = "routed",
                          !.next = route_after_research(call.state)]
  /\ UNCHANGED engine

\* the node picked launches its generators
Dispatch ==
  /\ call.fn = "route_after_research" /\ call.stage = "routed"
  /\ call' = [call EXCEPT
       !.stage = "dispatched",
       !.launched = IF call.next = "parallel_modules"
                    THEN ModulesToRun(call.state.custom_modules)
                    ELSE {}]
  /\ UNCHANGED engine

InitRouting ==
  /\ EngineAtRest
  /\ \E st \in RoutedStates :
       call = [fn |-> "route_after_research", stage |-> "called",
               state |-> st, next |-> "", launched |-> {}]

NextRouting ==
  \/ RouteAfterResearch
  \/ Dispatch

SpecRouting == InitRouting /\ [][NextRouting]_vars

(* ------------------------- upgrades of one journey --------------------- *)
\* The tier and the custom_modules key of one journey over its upgrades, and
\* the generators each paid run launches.  {} is a custom_modules that is
\* None or empty.
MaxUpgrades == 3

\* custom_modules of an upgrade request that gets past the validation
UpgradeSelections ==
  { {}, {"mod_bmc", "mod_market"}, {"mod_risk"}, {"investor_pitch_deck"} }

\* valid_tiers of the upgrade route
valid_tiers == {"basic", "standard", "premium", "custom"}

\* update_payload["custom_modules"]: written only for a request that has
\* some, the key of the state is left as it is otherwise
CustomModulesAfterUpgrade(custom_modules, requested) ==
  IF requested # {} THEN requested ELSE custom_modules

UpgradeCall ==
  [fn |-> "upgrade_tier", stage |-> "paused", upgrades |-> 0,
   tier |-> "free", custom_modules |-> {}, requested |-> {},
   next |-> "", launched |-> {}]

\* POST /upgrade with a valid tier and valid module names
UpgradeTier ==
  /\ call.fn = "upgrade_tier" /\ call.stage \in {"paused", "generated"}
  /\ call.upgrades < MaxUpgrades
  /\ \E tier \in valid_tiers, requested \in UpgradeSelections :
       call' = [call EXCEPT
         !.stage = "upgraded",
         !.upgrades = @ + 1,
         !.tier = tier,
         !.requested = requested,
         !.custom_modules = CustomModulesAfterUpgrade(@, requested),
         !.next = "", !.launched = {}]
  /\ UNCHANGED engine

\* run_paid_workflow: the route out of research and the generators of the
\* node it picks
RunPaidWorkflow ==
  /\ call.fn = "upgrade_tier" /\ call.stage = "upgraded"
  /\ LET next == route_after_research(call)
     IN  call' = [call EXCEPT
           !.stage = "generated",
           !.next = next,
           !.launched = IF next = "parallel_modules"
                        THEN ModulesToRun(call.custom_modules) ELSE {}]
  /\ UNCHANGED engine

InitUpgrades ==
  /\ EngineAtRest
  /\ call = UpgradeCall

NextUpgrades ==
  \/ UpgradeTier
  \/ RunPaidWorkflow

SpecUpgrades == InitUpgrades /\ [][NextUpgrades]_vars

(* -------------------- paid report and its notification ---------------- *)
\* One paid generation node (basic_tier_gen or compile_standard_report) of an
\* upgrade run: the handler builds the report, sends the webhook and returns
\* its update, which the graph then saves to the journey.  `persisted` is the
\* journey as saved: final_report is the score the saved report quotes, None
\* for a report without one (the free report) and for an absent bundle.
NotifiedScores == {0, 47, 100}

PaidNodes == {"basic_gen", "compiler"}

\* the score of the report: the stored one when the journey has a bundle, a
\* newly computed one otherwise
ReportScores(persisted) ==
  IF ScorePresent(persisted.stored_go_no_go_score)
  THEN {persisted.stored_go_no_go_score}
  ELSE NotifiedScores

GenerationCall(node, prior) ==
  [fn |-> "paid_generation", node |-> node, stage |-> "start",
   persisted |-> [final_report |-> prior, stored_go_no_go_score |-> prior,
                  error |-> FALSE],
   report |-> None, sent |-> None, delivered |-> FALSE,
   failure_sent |-> FALSE]

\* the handler up to the assembled report, or an error on the way
BuildReport ==
  /\ call.fn = "paid_generation" /\ call.stage = "start"
  /\ \/ \E score \in ReportScores(call.persisted) :
          call' = [call EXCEPT !.stage = "built", !.report = score]
     \/ call' = [call EXCEPT !.stage = "raised"]
  /\ UNCHANGED engine

\* send_report_webhook(thread_id, report_score, report_metadata): it keeps
\* every error of the request to itself
SendReportWebhook ==
  /\ call.fn = "paid_generation" /\ call.stage = "built"
  /\ \E delivered \in BOOLEAN :
       call' = [call EXCEPT !.stage = "notified",
                            !.sent = call.report,
                            !.delivered = delivered]
  /\ UNCHANGED engine

\* the handler returns and the graph saves the update to the journey
SaveUpdate ==
  /\ call.fn = "paid_generation" /\ call.stage = "notified"
  /\ call' = [call EXCEPT
       !.stage = "saved",
       !.persisted = [@ EXCEPT !.final_report = call.report,
                               !.stored_go_no_go_score = call.report]]
  /\ UNCHANGED engine

\* the save of the update raises, or the process ends before it
SaveFails ==
  /\ call.fn = "paid_generation" /\ call.stage = "notified"
  /\ \/ call' = [call EXCEPT !.stage = "raised"]
     \/ call' = [call EXCEPT !.stage = "stopped"]
  /\ UNCHANGED engine

\* the except branch of run_paid_workflow: the error is written to the
\* journey and a failure notification with score 0.0 is sent
PaidWorkflowFailed ==
  /\ call.fn = "paid_generation" /\ call.stage = "raised"
  /\ \E written \in BOOLEAN :
       call' = [call EXCEPT
         !.stage = "failed",
         !.persisted = IF written THEN [@ EXCEPT !.error = TRUE] ELSE @,
         !.failure_sent = TRUE]
  /\ UNCHANGED engine

InitNotification ==
  /\ EngineAtRest
  /\ \E node \in PaidNodes, prior \in NotifiedScores \cup {None} :
       call = GenerationCall(node, prior)

NextNotification ==
  \/ BuildReport
  \/ SendReportWebhook
  \/ SaveUpdate
  \/ SaveFails
  \/ PaidWorkflowFailed

SpecNotification == InitNotification /\ [][NextNotification]_vars

(* ------------------------------ claims --------------------------------- *)
GenNodes == {"basic_gen", "compiler"}

\* C1: a paid generation that finds a score bundle in the journey it receives
\* returns that score and breakdown, in the journey and in the new report,
\* and calls neither the scoring research nor the scoring assessor.
C1_BundleReused ==
  (last.op = "node" /\ last.node \in GenNodes /\ last.had_bundle) =>
    /\ journey.stored_go_no_go_score = last.pre_score
    /\ journey.stored_score_breakdown = last.pre_breakdown
    /\ journey.final_report.score = last.pre_score
    /\ journey.final_report.breakdown = last.pre_breakdown
    /\ ~last.did_research
    /\ ~last.did_scoring

C1_Witness ==
  /\ last.op = "node" /\ last.node = "compiler" /\ last.kind = "upgrade"
  /\ last.had_bundle
  /\ journey.tier = "standard" /\ journey.final_report.kind = "standard"

\* C2: once a score and breakdown are stored, no later step changes them.
C2_BundleNeverChanges ==
  [][ journey.stored_go_no_go_score # None =>
        /\ journey'.stored_go_no_go_score = journey.stored_go_no_go_score
        /\ journey'.stored_score_breakdown = journey.stored_score_breakdown ]_vars

\* C3: the interviewer ends the interview only if at least the minimum number
\* of questions was asked and the assessor signalled sufficiency, or the
\* maximum number of questions was reached.
C3_InterviewExitPolicy ==
  (last.op = "node" /\ last.node = "interviewer" /\ last.outcome # "asked") =>
    \/ journey.nq >= MIN_INTERVIEW_QUESTIONS /\ last.outcome = "sufficient"
    \/ journey.nq >= MAX_INTERVIEW_QUESTIONS

\* C4: an approve that finds the journey not suspended at the approval gate
\* changes nothing in the journey and starts no run.
C4_StrayApproveIgnored ==
  [][ (last'.op = "approve" /\ ~last'.gate) =>
        (journey' = journey /\ runs' = runs) ]_vars

\* C5: an answer that finds the journey not waiting for an answer is not
\* appended and starts no run.
C5_StrayAnswerIgnored ==
  [][ (last'.op = "answer" /\ ~last'.gate) =>
        (journey'.na = journey.na /\ runs' = runs) ]_vars

\* C6: a paid journey is reported as completed only if an approve was processed
\* at the approval gate after its latest paid report was generated.
C6_CompletedOnlyByApproval ==
  (created /\ journey.tier \in PaidTiers /\ StatusOf(journey) = "completed")
    => approved

\* C7: an approve applied at the approval gate completes the journey; the final
\* report is then the edited report if one was sent, else the report that was
\* waiting at the gate.
C7_ApproveCompletes ==
  /\ (last.op = "approve" /\ last.gate /\ last.edit # None) =>
       /\ journey.next = END
       /\ StatusOf(journey) = "completed"
       /\ journey.final_report = Edited(last.edit)
  /\ (last.op = "node" /\ last.node = "admin_approve" /\ last.kind = "approve"
      /\ last.gate) =>
       /\ journey.next = END
       /\ StatusOf(journey) = "completed"
       /\ journey.final_report = last.pre_report
       /\ journey.final_report.kind \in {"basic", "standard"}

C7_Witness ==
  /\ last.op = "node" /\ last.node = "admin_approve" /\ last.kind = "approve"
  /\ last.gate
  /\ journey.final_report.kind = "standard"

\* C8: after a node raised, the journey is persisted as failed, with message
\* and origin, and is reported as failed.
C8_FailurePersisted ==
  last.op = "fail" =>
    /\ journey.error
    /\ journey.error_message # None
    /\ journey.error_node # "none"
    /\ StatusOf(journey) = "failed"

\* the data of a journey that a failure must keep
DataOf(s) ==
  << s.nq, s.na, s.search_context, s.comprehensive_research, s.modules,
     s.stored_go_no_go_score, s.stored_score_breakdown,
     s.stored_scoring_research, s.final_report >>

\* this step is a node of an upgrade's run that follows an earlier failure
RetriggeredNode == last'.op = "node" /\ last'.kind = "upgrade"
                   /\ journey.error_node # "none"

\* C9: the step to failed keeps questions, answers, research, module payloads,
\* score bundle and report, and a retriggered paid run computes again neither
\* the score bundle, nor the comprehensive research, nor the module payloads
\* it finds.
C9_RetriggerReusesAll ==
  [][ /\ last'.op = "fail" => DataOf(journey') = DataOf(journey)
      /\ (RetriggeredNode /\ last'.had_bundle) =>
           /\ ~last'.did_scoring /\ ~last'.did_research
      /\ (RetriggeredNode /\ last'.had_comprehensive) => ~last'.did_comprehensive
      /\ (RetriggeredNode /\ last'.had_modules) => ~last'.did_modules ]_vars

\* the journey is in the phase, and has the report presence, of the kept read
SamePhaseAndReport ==
  /\ probe # NoProbe
  /\ created /\ ~journey.error
  /\ probe.next = journey.next
  /\ probe.has_report = HasReport(journey)

\* C10 (as amended): failed is reported exactly for journeys whose error flag
\* is set, and they have a message; two other journeys in the same phase, with
\* the same presence of a report and both free or both paid, report the same
\* status.
C10_StatusByPhaseReportTier ==
  /\ created => (StatusOf(journey) = "failed" <=> journey.error)
  /\ journey.error => journey.error_message # None
  /\ (SamePhaseAndReport /\ probe.free = (journey.tier = "free")) =>
       StatusOf(journey) = probe.status

C10_Witness ==
  /\ SamePhaseAndReport
  /\ probe.status = "completed"
  /\ journey.final_report.kind = "edited"
  /\ journey.workflow_phase = "free_report"

\* C10 (as claimed): the status of a journey that has not failed is decided by
\* its phase and the presence of a report alone.
C10_StatusByPhaseAndReport ==
  /\ created => (StatusOf(journey) = "failed" <=> journey.error)
  /\ SamePhaseAndReport => StatusOf(journey) = probe.status

\* C11: a phase handler does not change the journey snapshot it receives, and
\* every change it makes to the journey is in the update it returns; here for
\* the module orchestrator: when it returns, the state dict it was given is as
\* it was, and what it computed for the journey is in the returned update.
C11_SnapshotUnchanged ==
  (call.fn = "run_modules_parallel" /\ call.stage = "returned") =>
    /\ call.state = call.view
    /\ call.directive # None => "strategic_directive" \in call.update
    /\ call.comprehensive_research # None =>
         "comprehensive_research" \in call.update

C13_FinalInRange ==
  (call.fn \in {"calculate_viability_score", "calculate_go_no_go_score"}
   /\ call.stage = "done") =>
    call.final \in 0..1000

C13_Witness ==
  /\ call.fn = "calculate_go_no_go_score" /\ call.stage = "done"
  /\ call.final = 1000

\* C14: for every URL that contains one of the exact high-trust domains the
\* credibility scorer returns that domain's fixed score, whatever the path,
\* the query string or the rest of the URL is.
C14_HighDomainScore ==
  (call.fn = "score_source_credibility" /\ call.stage = "returned") =>
    \A i \in 1..Len(HIGH_CREDIBILITY_DOMAINS) :
      Contains(url_lower(call.url), HIGH_CREDIBILITY_DOMAINS[i].domain) =>
        /\ call.score = HIGH_CREDIBILITY_DOMAINS[i].score
        /\ call.level = "high"

\* C15: when the strict pass yields no qualifying item, the lenient pass none
\* either, and the broad retry's search returns one item (a result with its
\* content), the coordinator's output contains that item tagged as a broad
\* retry source and is not the empty-result sentinel.
C15_BroadRetryItemReturned ==
  (/\ call.fn = "dynamic_research"
   /\ call.stage \in {"returned", "stored", "used"}
   /\ call.strict = 0 /\ call.scored = 0
   /\ call.broad.kind = "searched"
   /\ Len(call.broad.results) = 1
   /\ call.broad.results[1].content # "") =>
    /\ call.output # Sentinel
    /\ \E i \in 1..Len(call.output) :
         call.output[i] = [tag |-> "[BROAD RETRY SOURCE]",
                           content |-> call.broad.results[1].content]

C15_Witness ==
  /\ call.fn = "dynamic_research" /\ call.stage = "returned"
  /\ call.strict = 0 /\ call.scored = 0
  /\ call.broad.kind = "searched"
  /\ call.broad.results = << [url |-> <<"https://", "example", ".", "com">>,
                              content |-> "a"] >>
  /\ call.output = << [tag |-> "[BROAD RETRY SOURCE]", content |-> "a"] >>

\* C16: the empty-result sentinel is a failure marker for every caller of the
\* research coordinator: it is never stored as a topic's or an objective's
\* research, never kept as a successful result of the comprehensive research,
\* never handed on as evidence.
C16_SentinelNeverContent ==
  (call.fn = "dynamic_research") =>
    /\ ~HasSentinelPhrase(call.results)
    /\ ~HasSentinelPhrase(call.kept)

\* C17: when exactly one of the ten module tasks raises, the merged result has
\* the payload keys of the other nine and no key of the failed one, and the
\* batch itself does not raise.
C17_OneFailureOmitted ==
  (/\ call.fn = "run_modules_parallel"
   /\ call.stage \in {"ran", "raised", "returned"}
   /\ DOMAIN call.outcomes = ModuleNames) =>
    \A failed \in ModuleNames :
      (\A m \in ModuleNames : call.outcomes[m] = "raises" <=> m = failed) =>
        /\ ~call.raised
        /\ call.stage # "raised"
        /\ DataKey(failed) \notin call.update
        /\ \A m \in ModuleNames \ {failed} : DataKey(m) \in call.update

C17_Witness ==
  /\ call.fn = "run_modules_parallel" /\ call.stage = "returned"
  /\ DOMAIN call.outcomes = ModuleNames
  /\ \A m \in ModuleNames : call.outcomes[m] = "raises" <=> m = "mod_tech"
  /\ call.update = {DataKey(m) : m \in ModuleNames \ {"mod_tech"}}

\* C18: the update the module orchestrator returns holds the merged module
\* map and both shared prerequisites, the comprehensive research and the
\* strategic directive, whenever the call computed them.
C18_PrerequisitesReturned ==
  (call.fn = "run_modules_parallel" /\ call.stage = "returned") =>
    /\ Gathered(call.outcomes).merged \subseteq call.update
    /\ call.comprehensive_research # None =>
         "comprehensive_research" \in call.update
    /\ call.directive # None => "strategic_directive" \in call.update

\* C19: during compilation the consistency verifier is never invoked when
\* fewer than two modules are present, and never for the custom tier, however
\* many modules there are.
C19_VerifierGuard ==
  (call.fn = "compile_standard_report" /\ call.verified # None) =>
    /\ call.tier # "custom"
    /\ Cardinality({k \in MODULE_DATA_KEYS : call.view[k] # None}) >= 2

C19_Witness ==
  /\ call.fn = "compile_standard_report"
  /\ call.verified = 2
  /\ call.tier = "standard"
  /\ {k \in MODULE_DATA_KEYS : call.view[k] # None}
       = {"market_data", "financial_data"}

\* C20: when the consistency check or a repair step ends in an error, that
\* step changes no module payload and the compilation goes on: the journey
\* does not fail because of it, and the report is produced and returned.
C20_FailOpen ==
  [][ /\ call'.fn = "compile_standard_report"
         /\ call'.step \in {"verify_error", "verify_raises", "fix_error"}
         => /\ call'.state = call.state
            /\ call'.stage \in {"fixing", "compiling"}
      /\ call'.fn = "compile_standard_report" /\ call'.stage = "raised"
         => call'.step = "report_raises"
      /\ call'.fn = "compile_standard_report" /\ call'.step = "report"
         => call'.stage = "returned" /\ call'.final_report # None
    ]_vars

C20_Witness ==
  /\ call.fn = "compile_standard_report" /\ call.stage = "returned"
  /\ call.errors > 0
  /\ call.final_report # None
  /\ call.state = call.view

C22_CustomDispatch ==
  (/\ call.fn = "route_after_research" /\ call.stage = "dispatched"
   /\ call.state.tier = "custom") =>
    LET valid == call.state.custom_modules \cap ModuleNames
    IN  IF valid = {} THEN call.next = "basic_gen" /\ call.launched = {}
        ELSE call.next = "parallel_modules" /\ call.launched = valid

\* C23: scoring research uses four queries for every research objective,
\* whatever the journey's tier is.
C23_ScoringFourQueries ==
  (/\ call.fn = "dynamic_research"
   /\ call.caller = "conduct_scoring_research"
   /\ call.stage # "start") =>
    call.queries_run = 4

\* C24: once the maximum number of questions has been asked the interviewer
\* completes the interview without calling the assessor, and the number of
\* questions asked in a journey never exceeds that maximum.
C24_MaxQuestions ==
  /\ journey.nq <= MAX_INTERVIEW_QUESTIONS
  /\ \A r \in Slots : runs[r].loc.nq <= MAX_INTERVIEW_QUESTIONS
  /\ (last.op \in {"node", "fail"} /\ last.node = "interviewer"
      /\ last.outcome # "asked" /\ journey.nq >= MAX_INTERVIEW_QUESTIONS) =>
       /\ last.op = "node" /\ last.outcome = "max"
       /\ journey.interview_phase = "complete"

C24_Witness ==
  /\ last.op = "node" /\ last.node = "interviewer" /\ last.outcome = "max"
  /\ journey.nq = MAX_INTERVIEW_QUESTIONS
  /\ journey.interview_phase = "complete"

\* C25: in the research coordinator a level of the escalation (lenient pass,
\* broad retry, creative retry) is attempted only if every earlier level
\* produced no content; once a level has produced content no later level
\* searches.
C25_EscalationOrder ==
  (call.fn = "dynamic_research") =>
    LET broad_content == Tagged(call.broad.results, "[BROAD RETRY SOURCE]")
    IN  /\ call.lenient => call.strict = 0
        /\ call.broad.kind # "none" => call.standard = <<>>
        /\ call.creative.kind # "none" =>
             call.standard = <<>> /\ broad_content = <<>>
        /\ call.standard # <<>> =>
             call.broad.kind # "searched" /\ call.creative.kind # "searched"
        /\ broad_content # <<>> => call.creative.kind # "searched"

C25_Witness ==
  /\ call.fn = "dynamic_research" /\ call.stage = "creative_done"
  /\ call.lenient /\ call.scored = 1
  /\ call.broad.kind = "searched" /\ Len(call.broad.results) = 1
  /\ call.creative.kind = "searched" /\ call.creative.found

\* C26: the research coordinator returns the empty-result sentinel exactly
\* when none of the four levels yielded content; when a level yielded an item
\* with content, the output is not the sentinel and holds that content.
C26_SentinelIffEmpty ==
  (call.fn = "dynamic_research"
   /\ call.stage \in {"returned", "stored", "used"}) =>
    LET broad_content == Tagged(call.broad.results, "[BROAD RETRY SOURCE]")
        empty == /\ call.standard = <<>>
                 /\ broad_content = <<>>
                 /\ ~call.creative.found
    IN  /\ call.output = Sentinel <=> empty
        /\ call.standard # <<>> =>
             /\ call.output # <<>>
             /\ \A i \in 1..Len(call.output) :
                  call.output[i] = call.standard[i]
        /\ broad_content # <<>> =>
             /\ call.output # <<>>
             /\ \A i \in 1..Len(call.output) :
                  call.output[i] = broad_content[i]
        /\ call.creative.found =>
             /\ call.output # <<>>
             /\ \A i \in 1..Len(call.output) :
                  /\ call.output[i].tag = "[CREATIVE RETRY SOURCE]"
                  /\ call.output[i].content # ""

C26_Witness ==
  /\ call.fn = "dynamic_research" /\ call.stage = "returned"
  /\ call.scored = 2 /\ call.lenient
  /\ call.broad.kind = "searched" /\ Len(call.broad.results) = 1
  /\ call.creative.kind = "searched" /\ ~call.creative.found
  /\ call.output = Sentinel

\* C27: when the strict pass succeeds, the output holds only items at or
\* above the minimum credibility, no two of them with the same normalized
\* content prefix, in non-increasing order of credibility, each high source
\* under the distinguishing tag, and it is no longer than the budget.
C27_StrictOutput ==
  (/\ call.fn = "dynamic_research"
   /\ call.stage \in {"returned", "stored", "used"}
   /\ call.strict > 0 /\ call.standard # <<>>) =>
    LET score(i) == score_source_credibility(call.aggregated[i].url)
    IN  /\ Len(call.output) <= Len(call.aggregated)
        /\ \A i \in 1..Len(call.output) :
             /\ call.output[i].content = call.aggregated[i].content
             /\ score(i).score >= MIN_CREDIBILITY
             /\ call.output[i].tag =
                  IF score(i).level = "high" THEN "[HIGH CREDIBILITY SOURCE]"
                  ELSE ""
        /\ \A i, j \in 1..Len(call.output) :
             i < j =>
               /\ score(i).score >= score(j).score
               /\ Normalized(call.output[i].content)
                    # Normalized(call.output[j].content)
        /\ call.output_len <= call.max_length

C27_Witness ==
  /\ call.fn = "dynamic_research" /\ call.stage = "returned"
  /\ call.strict = 2 /\ Len(call.aggregated) = 2
  /\ call.max_length = DEFAULT_MAX_LENGTH_PER_OBJECTIVE
  /\ call.output = << [tag |-> "[HIGH CREDIBILITY SOURCE]", content |-> "b"] >>
  /\ call.output_len = call.max_length

C29_OneCycle ==
  (call.fn = "compile_standard_report") =>
    /\ call.verifier_calls <= 1 /\ call.attempt = 0
    /\ call.fix_calls <= 2 /\ call.fix_calls <= call.inconsistencies
    /\ call.fix_calls + call.todo
         = (IF call.stage = "fixing" \/ call.fix_calls > 0
            THEN (IF call.inconsistencies > 2 THEN 2
                  ELSE call.inconsistencies)
            ELSE 0)
    /\ call.fixes_applied <= call.fix_calls
    /\ Cardinality(call.written) <= 1
    /\ call.fix_calls > 0 => call.stage # "start"

C29_Witness ==
  /\ call.fn = "compile_standard_report" /\ call.stage = "returned"
  /\ call.verifier_calls = 1 /\ call.inconsistencies = 3
  /\ call.fix_calls = 2 /\ call.fixes_applied = 2
  /\ call.state["market_data"] = 3

\* C30: a repair applied for a reported inconsistency rewrites exactly one
\* module, one of the two the issue names; no module outside the pair of the
\* issue is overwritten.
C30_RepairWithinIssue ==
  (call.fn = "compile_standard_report" /\ call.written # {}) =>
    /\ Cardinality(call.written) = 1
    /\ call.written \subseteq {StateKey(name) : name \in call.issue}

\* C31: the module names of a reported inconsistency are resolved without
\* regard to letter case, the synonym for the customer content going to the
\* business-model module, when the content is fetched for the repair and when
\* the repaired content is written back: a repair whose target differs from a
\* module name only in letter case is applied to that module.
\* the data key a name stands for when letter case is left aside: a module's
\* simple name, or the customer content of the business-model canvas
ResolvedAnyCase(name, present) ==
  LET lowered == LowerName(name)
      key == CASE lowered \in {SimpleName(k) : k \in MODULE_DATA_KEYS} ->
                    CHOOSE k \in MODULE_DATA_KEYS : SimpleName(k) = lowered
               [] lowered \in {"customer", "customer segments"} -> "bmc_data"
               [] OTHER -> ""
  IN  IF key \in present THEN key ELSE ""

C31_NamesAnyCase ==
  (call.fn = "attempt_fix_for_inconsistency") =>
    /\ call.stage # "start" =>
         /\ call.content1 = ResolvedAnyCase(call.name1, call.present)
         /\ call.content2 = ResolvedAnyCase(call.name2, call.present)
    /\ call.stage = "applied" =>
         call.written = ResolvedAnyCase(call.target, call.present)

\* the half of C31 that holds: the two contents of an issue are fetched
\* without regard to letter case
C31_FetchAnyCase ==
  (call.fn = "attempt_fix_for_inconsistency" /\ call.stage # "start") =>
    /\ call.content1 = ResolvedAnyCase(call.name1, call.present)
    /\ call.content2 = ResolvedAnyCase(call.name2, call.present)

\* C32: in the five-dimension pass a raw value is multiplied by
\* 0.7 + 0.3 * quality / 10, the quality being 5 when there is none, and by
\* 0.85 on top exactly when the context-specificity score is below 5 and the
\* dimension is market opportunity or problem severity; in the
\* eight-dimension pass a raw value is multiplied by nothing.
C32_Multiplier ==
  (call.fn = "score_dimension" /\ call.stage # "raw") =>
    LET m == call.multiplier
        q == IF call.quality = Missing THEN 5 ELSE call.quality
        vague == /\ call.context # Missing /\ call.context < 50
                 /\ call.dim \in {"market_opportunity", "problem_severity"}
        product == RawScore(call.raw) * m.num
    IN  /\ call.of = "calculate_viability_score" =>
             m.num * 10000 =
               m.den * (70 + 3 * q) * (IF vague THEN 85 ELSE 100)
        /\ call.of = "calculate_go_no_go_score" => m.num = m.den
        /\ call.stage = "displayed" =>
             /\ call.display \in 0..10
             /\ product <= 0 => call.display = 0
             /\ product >= 100 * m.den => call.display = 10
             /\ (product > 0 /\ product < 100 * m.den) =>
                  /\ 2 * (call.display * 10 * m.den - product) <= 10 * m.den
                  /\ 2 * (product - call.display * 10 * m.den) <= 10 * m.den

C32_Witness ==
  /\ call.fn = "score_dimension" /\ call.stage = "displayed"
  /\ call.of = "calculate_viability_score"
  /\ call.dim = "market_opportunity"
  /\ call.raw = 55 /\ call.quality = Missing /\ call.context = 49
  /\ call.multiplier = [num |-> 72250, den |-> 100000]
  /\ call.display = 4

\* C33: a generation run of a standard or premium journey executes all ten
\* module generators, in every execution, also when the journey was upgraded
\* to the custom tier with some of the modules before and to standard or
\* premium afterwards.
C33_AllTenModules ==
  (/\ call.fn = "upgrade_tier" /\ call.stage = "generated"
   /\ call.tier \in {"standard", "premium"}
   /\ call.requested = {}) =>
    call.launched = ModuleNames

\* C34: the number of search queries executed in the strict pass of one
\* research call never exceeds the number of queries N configured for the
\* call, whether the queries come from the query generator or from its
\* fallback.
C34_QueriesWithinN ==
  (call.fn = "dynamic_research" /\ call.stage # "start") =>
    call.queries_run <= call.num_queries

\* C35: in every reachable state of a journey the number of answers recorded
\* is at most the number of questions asked (the i-th answer comes after the
\* i-th question).
C35_AnswersWithinQuestions ==
  created => journey.na <= journey.nq

\* C36: no paid generation phase (basic generation, parallel modules,
\* compilation) starts for a journey before its interview is complete and its
\* research phase has run, also when the upgrade is called while the journey
\* waits for an answer of the interview.
C36_PaidAfterInterviewAndResearch ==
  \A r \in Slots :
    (/\ runs[r].kind # "idle"
     /\ runs[r].loc.next \in {"basic_gen", "parallel_modules", "compiler"}) =>
      /\ runs[r].loc.interview_phase = "complete"
      /\ runs[r].loc.search_context # None

\* C37: the notification of a paid journey's report goes to the webhook only
\* after the report and the score bundle it quotes are saved in the journey;
\* when the run fails or stops between generating and saving, no notification
\* with a score other than the saved one has been sent.
C37_NotifiedAfterSaved ==
  (call.fn = "paid_generation" /\ call.sent # None) =>
    /\ call.persisted.final_report = call.sent
    /\ call.persisted.stored_go_no_go_score = call.sent

\* C38: the merged module map of a batch is the same whatever the order in
\* which the module tasks finish: every task's result has at most the data key
\* of its own module, no two results share a key, and the merged map holds
\* under each key the payload of the one task that owns it.
C38_MergedByOwner ==
  (call.fn = "gather_modules") =>
    /\ \A m \in DOMAIN call.results :
         DOMAIN call.results[m] \subseteq {DataKey(m)}
    /\ \A m, n \in DOMAIN call.results :
         m # n => DOMAIN call.results[m] \cap DOMAIN call.results[n] = {}
    /\ call.stage = "merged" =>
         /\ DOMAIN call.merged =
              UNION {DOMAIN call.results[m] : m \in DOMAIN call.results}
         /\ \A m \in DOMAIN call.results :
              \A k \in DOMAIN call.results[m] :
                call.merged[k] = call.results[m][k]

C38_Witness ==
  /\ call.fn = "gather_modules" /\ call.stage = "merged"
  /\ call.custom_modules = {} /\ call.overtaken
  /\ DOMAIN call.results = ModuleNames
  /\ DOMAIN call.results["mod_risk"] = {}
  /\ DOMAIN call.merged = {DataKey(m) : m \in ModuleNames \ {"mod_risk"}}
  /\ call.merged["market_data"] = "mod_market"

\* the payload of a module in the journey once the returned update is saved:
\* the keys of the update are written, the others stay as they were
PersistedPayload(k) ==
  IF k \in call.update THEN call.state[k] ELSE call.view[k]

\* C39: after a compilation that applied a repair, the content of every module
\* in the final report is the content saved in the journey under that module's
\* payload key.
C39_ReportShowsPersisted ==
  (/\ call.fn = "compile_standard_report" /\ call.stage = "returned"
   /\ call.state # call.view) =>
    \A k \in MODULE_DATA_KEYS :
      call.modules[k] # None => call.modules[k] = PersistedPayload(k)

\* a compilation whose repair rewrote the market module as a whole
C39_MarketRepaired ==
  /\ call.fn = "compile_standard_report" /\ call.stage = "returned"
  /\ call.view["market_data"] = 1
  /\ call.modules["market_data"] = 2
  /\ call.written = {"market_data"}

\* C40: a journey that waits for the next interview answer is never reported
\* with status paused_for_upgrade or completed; the two are reported only for
\* a journey whose interview is complete.
C40_WaitingNotPaused ==
  /\ AwaitingAnswer =>
       StatusOf(journey) \notin {"paused_for_upgrade", "completed"}
  /\ (created /\ StatusOf(journey) \in {"paused_for_upgrade", "completed"}) =>
       journey.interview_phase = "complete"

\* the journey SpecOverlap starts from is one Spec reaches
ReachedPausedAfterFreeReport ==
  /\ journey = PausedAfterFreeReport
  /\ \A r \in Slots : runs[r].kind = "idle"

====
